---- MODULE Spec2Model ----
(***************************************************************************)
(* A model of the Lox-Rs tree-walking interpreter: the resolver pass that  *)
(* annotates variable references with a lexical depth, the scope chain,    *)
(* and the evaluator (Expr::eval, Stmt::exec, Callable::call).             *)
(*                                                                         *)
(* Numbers are f64 in the source; the model uses integers, on which the    *)
(* operators used here (+, -, *, comparisons, negation) agree with f64 for *)
(* the small magnitudes the programs below produce.  Div is not evaluated.  *)
(* Scopes are reference counted in the source; the model keeps every scope *)
(* ever created in a heap (a sequence), a scope's identity being its index.*)
(***************************************************************************)
EXTENDS Integers, Sequences, FiniteSets, TLC

\* input   the program as parsed (never changed)
\* prog    the AST the resolver annotates in place and the evaluator runs
\* phase   "parsed", "resolved", "rejected" (the resolver stopped with an error),
\*         "done", "err" (runtime error), "panic", "limit" (out of MaxFuel)
\* pc      the next top-level statement of Prog::exec
\* scopes, out, log   the evaluator's state (see below)
\* rerr    the resolver's error kind
\* resolver, passes   the Resolver object and the number of passes it has made
\* src     the source text, a sequence of characters
\* toks    the tokens the lexer emitted for src
\* tree    the parser's result for toks
\* stage   "idle", "source", "lexed", "parsed"
VARIABLES input, prog, phase, pc, scopes, out, log, rerr, resolver, passes,
          src, toks, tree, stage, cursor

\* the variables of the lexer and the parser
front == <<src, toks, tree, stage, cursor>>

\* the variables of the resolver and the evaluator
back == <<input, prog, phase, pc, scopes, out, log, rerr, resolver, passes>>

vars == <<input, prog, phase, pc, scopes, out, log, rerr, resolver, passes,
          src, toks, tree, stage>>

(***************************************************************************)
(* Bounds                                                                  *)
(***************************************************************************)
\* evaluation steps (calls and loop iterations) one statement may take
MaxFuel == 12
\* largest number literal of the generated programs
MaxNum == 1
\* number of calls made in the two-counter programs
MaxCalls == 3
\* largest reading of the clock
MaxClock == 1
\* number of passes the resolver may make over one program
MaxPasses == 2

(***************************************************************************)
(* val.rs: Val and Function                                                *)
(***************************************************************************)
NoVal == [t |-> "NoVal"]
Nil == [t |-> "Nil"]
Number(x) == [t |-> "Number", n |-> x]
Boolean(b) == [t |-> "Boolean", b |-> b]
String(s) == [t |-> "String", s |-> s]
Native(arity, f) == [t |-> "Func", kind |-> "Native", arity |-> arity, f |-> f]
UserDef(decl, closure) == [t |-> "Func", kind |-> "UserDef", decl |-> decl, closure |-> closure]

\* impl Display for Val
Display(v) ==
  CASE v.t = "Number" -> ToString(v.n)
    [] v.t = "Boolean" -> IF v.b THEN "true" ELSE "false"
    [] v.t = "String" -> v.s
    [] v.t = "Nil" -> "nil"
    [] v.t = "Func" -> IF v.kind = "Native" THEN "<native fn>" ELSE "<user fn>"
    [] v.t = "NoVal" -> "???"

\* impl PartialEq for Function: natives by arity and function pointer, user-defined
\* functions by the value of the declaration (Rc<Stmt> == compares the statements) and
\* by the identity of the closure scope (Rc::ptr_eq)
function_eq(x, y) ==
  CASE x.kind = "Native" /\ y.kind = "Native" -> x.arity = y.arity /\ x.f = y.f
    [] x.kind = "UserDef" /\ y.kind = "UserDef" -> x.decl = y.decl /\ x.closure = y.closure
    [] OTHER -> FALSE

\* #[derive(PartialEq)] for Val
val_eq(x, y) ==
  IF x.t = "Func" /\ y.t = "Func" THEN function_eq(x, y)
  ELSE IF x.t # y.t THEN FALSE
  ELSE x = y

\* impl From<Val> for bool
truthy(v) == ~(v = Nil \/ v = Boolean(FALSE))

(***************************************************************************)
(* expr.rs, stmt.rs: the AST                                               *)
(***************************************************************************)
\* Variable::new: a reference starts unresolved (negative depth)
Variable(name) == [name |-> name, depth |-> -1]

Asgn(var, e) == [k |-> "Asgn", var |-> var, e |-> e]
Call(callee, args) == [k |-> "Call", callee |-> callee, args |-> args]
Bin(op, l, r) == [k |-> op, lhs |-> l, rhs |-> r]
Not(e) == [k |-> "Not", arg |-> e]
Opp(e) == [k |-> "Opp", arg |-> e]
Lit(v) == [k |-> "Lit", v |-> v]
Var(var) == [k |-> "Var", var |-> var]

BinOps == {"And", "Or", "Eq", "Ne", "Gt", "Ge", "Lt", "Le", "Add", "Sub", "Mul"}

Block(stmts) == [k |-> "Block", stmts |-> stmts]
ExprStmt(e) == [k |-> "Expr", e |-> e]
PrintStmt(e) == [k |-> "Print", e |-> e]
\* Option<Expr>: <<>> is None, <<e>> is Some(e)
Decl(name, init) == [k |-> "Decl", name |-> name, init |-> init]
If(cond, then, else) == [k |-> "If", cond |-> cond, then |-> then, else |-> else]
While(cond, body) == [k |-> "While", cond |-> cond, body |-> body]
Func(name, params, body) == [k |-> "Func", name |-> name, params |-> params, body |-> body]
Return(ret) == [k |-> "Return", ret |-> ret]

(***************************************************************************)
(* The evaluator's state, threaded through eval/exec:                      *)
(*   scopes  the heap of scopes (prog.rs Scope), index = identity          *)
(*   out     lines written to standard output                              *)
(*   log     history of what the evaluator did (observation only)          *)
(*   cur     the call scope of the call being executed, 0 at top level     *)
(*   now     what the system clock reads while the statement runs          *)
(*   fuel    remaining calls and loop iterations                           *)
(***************************************************************************)
Ok(v, st) == [r |-> "ok", v |-> v, st |-> st]
Err(st) == [r |-> "err", v |-> NoVal, st |-> st]
Panic(st) == [r |-> "panic", v |-> NoVal, st |-> st]
Limit(st) == [r |-> "limit", v |-> NoVal, st |-> st]

Note(st, ev) == [st EXCEPT !.log = Append(@, ev)]
Println(st, line) == [st EXCEPT !.out = Append(@, line)]

(***************************************************************************)
(* prog.rs: Scope                                                          *)
(***************************************************************************)
EmptyMap == [n \in {} |-> NoVal]

\* Scope::new_global
new_global(globals) == [kind |-> "Global", values |-> globals, outer |-> 0, global |-> 0]

\* Scope::get_global
get_global(sc, st) == IF st.scopes[sc].kind = "Global" THEN sc ELSE st.scopes[sc].global

\* a new scope that starts with the bindings of the scope around it
new_local_copy(outer, st) ==
  [st EXCEPT !.scopes = Append(@, [kind |-> "Local", values |-> @[outer].values,
                                   outer |-> outer, global |-> get_global(outer, st)])]

\* a new scope that takes the scope around it for its global scope
new_local_under(outer, st) ==
  [st EXCEPT !.scopes = Append(@, [kind |-> "Local", values |-> EmptyMap,
                                   outer |-> outer, global |-> outer])]

\* Scope::new_local; the new scope is the last of the heap
new_local(outer, st) ==
  [st EXCEPT !.scopes = Append(@, [kind |-> "Local", values |-> EmptyMap,
                                   outer |-> outer, global |-> get_global(outer, st)])]

\* Scope::get_outer; 0 is None
get_outer(sc, st) == IF st.scopes[sc].kind = "Global" THEN 0 ELSE st.scopes[sc].outer

\* Scope::get_ancestor; 0 when the walk runs past the global scope (the expect fails)
RECURSIVE get_ancestor(_, _, _)
get_ancestor(sc, dist, st) ==
  IF dist <= 0 THEN sc
  ELSE IF get_outer(sc, st) = 0 THEN 0
       ELSE get_ancestor(get_outer(sc, st), dist - 1, st)

\* a definition that lands in the global scope instead of the given one
def_in_global(sc, name, val, st) ==
  Note([st EXCEPT !.scopes[get_global(sc, st)].values = (name :> val) @@ @],
       [ev |-> "def", sc |-> sc, name |-> name, v |-> val, call |-> st.cur])

\* Scope::def
def(sc, name, val, st) ==
  Note([st EXCEPT !.scopes[sc].values = (name :> val) @@ @],
       [ev |-> "def", sc |-> sc, name |-> name, v |-> val, call |-> st.cur])

\* the nearest scope from sc outwards that defines the name, the global scope if none
env_of_nearest(sc, var, st) ==
  LET found == {d \in 0 .. Len(st.scopes) :
                  /\ get_ancestor(sc, d, st) # 0
                  /\ var.name \in DOMAIN st.scopes[get_ancestor(sc, d, st)].values}
  IN IF found = {} THEN get_global(sc, st)
     ELSE get_ancestor(sc, CHOOSE d \in found : \A c \in found : d <= c, st)

\* a lookup that sends a reference without a depth to the nearest scope that has the
\* name at that moment, and not to the global scope
env_of_late(sc, var, st) ==
  IF var.depth < 0 THEN env_of_nearest(sc, var, st) ELSE get_ancestor(sc, var.depth, st)

\* the scope a reference addresses (first lines of Scope::get and Scope::asgn)
env_of(sc, var, st) ==
  IF var.depth < 0 THEN get_global(sc, st) ELSE get_ancestor(sc, var.depth, st)

\* the note of a get or an asgn that did not find the name in the addressed scope
Missing(op, sc, env, var, st) ==
  [ev |-> "undefined", op |-> op, sc |-> sc, env |-> env, name |-> var.name,
   depth |-> var.depth, call |-> st.cur]

\* Scope::get
get(sc, var, st) ==
  LET env == env_of(sc, var, st) IN
  IF env = 0 THEN Panic(st)
  ELSE IF var.name \in DOMAIN st.scopes[env].values
       THEN Ok(st.scopes[env].values[var.name],
               Note(st, [ev |-> "get", sc |-> sc, env |-> env, name |-> var.name,
                         depth |-> var.depth, call |-> st.cur]))
       ELSE Err(Println(Note(st, Missing("get", sc, env, var, st)),
                        "Undefined variable '" \o var.name \o "'"))

\* Scope::asgn
asgn(sc, var, new, st) ==
  LET env == env_of(sc, var, st) IN
  IF env = 0 THEN Panic(st)
  ELSE IF var.name \in DOMAIN st.scopes[env].values
       THEN Ok(NoVal,
               Note([st EXCEPT !.scopes[env].values[var.name] = new],
                    [ev |-> "asgn", sc |-> sc, env |-> env, name |-> var.name, v |-> new,
                     depth |-> var.depth, call |-> st.cur]))
       ELSE Err(Println(Note(st, Missing("asgn", sc, env, var, st)),
                        "Undefined variable '" \o var.name \o "'"))

(***************************************************************************)
(* expr.rs: Expr::eval                                                     *)
(***************************************************************************)
\* try_numeric!: both operands must be Number
try_numeric(op, x, y, st) ==
  IF x.t = "Number" /\ y.t = "Number"
  THEN Ok(CASE op = "Gt" -> Boolean(x.n > y.n)
            [] op = "Ge" -> Boolean(x.n >= y.n)
            [] op = "Lt" -> Boolean(x.n < y.n)
            [] op = "Le" -> Boolean(x.n <= y.n)
            [] op = "Sub" -> Number(x.n - y.n)
            [] op = "Mul" -> Number(x.n * y.n), st)
  ELSE Err(st)

\* the Add arm of Expr::eval, on the operands' values
add_vals(x, y, st) ==
  IF x.t = "Number" /\ y.t = "Number" THEN Ok(Number(x.n + y.n), st)
  ELSE IF x.t = "String" /\ y.t = "String" THEN Ok(String(x.s \o y.s), st)
  ELSE Err(st)

\* a test under which the right operand is always evaluated
left_decides_never(op, v) == FALSE

\* the And and Or arms of Expr::eval, on the left operand's value: And yields it when
\* it is Nil or Boolean(false), Or yields it in every other case
left_decides(op, v) ==
  IF op = "And" THEN v = Nil \/ v = Boolean(FALSE) ELSE ~(v = Nil \/ v = Boolean(FALSE))

\* the Not arm of Expr::eval, on the operand's value: both match arms yield true
not_val(v) == IF v = Nil \/ v = Boolean(FALSE) THEN Boolean(TRUE) ELSE Boolean(TRUE)

\* the Opp arm of Expr::eval, on the operand's value
opp_val(v, st) == IF v.t = "Number" THEN Ok(Number(-v.n), st) ELSE Err(st)

\* an arity test that only rejects too few arguments
arity_too_few(expected, args) == expected > Len(args)

\* the arity test of Callable::call
arity_differs(expected, args) == expected # Len(args)

\* println!("Expected {} arguments, got {}", ..)
arity_message(expected, got) ==
  "Expected " \o ToString(expected) \o " arguments, got " \o ToString(got)

\* a call scope made a child of the global scope instead of the closure
inner_of_global(closure, st) == new_local(get_global(closure, st), st)

\* Scope::inner(closure) in Callable::call: the call's scope, a fresh child of the closure
inner(closure, st) == new_local(closure, st)

\* the native functions of globals.rs: clock reads the system time
native(f, args, st) == Number(st.now)

\* what Callable::call hands back from the body's control result
call_result(res) == res

\* a function value that captures the global scope instead of the current one
func_value_global(decl, sc) == UserDef(decl, 1)

\* the Func arm of Stmt::exec: the function value captures the current scope
func_value(decl, sc) == UserDef(decl, sc)

\* the test of Block and While for a control result that must propagate
propagates(val) == val # NoVal

RECURSIVE eval(_, _, _), eval_args(_, _, _, _, _), bind(_, _, _, _, _),
          exec(_, _, _), exec_block(_, _, _, _), exec_while(_, _, _), call(_, _, _)

\* the Call arm of Expr::eval: callee, then the arguments left to right, then the call
eval_call(e, sc, st) ==
  LET c == eval(e.callee, sc, st) IN
  IF c.r # "ok" THEN c
  ELSE IF c.v.t # "Func" THEN Err(Note(c.st, [ev |-> "notcallable", call |-> st.cur]))
  ELSE LET a == eval_args(e.args, 1, sc, c.st, <<>>) IN
       IF a.r # "ok" THEN a
       ELSE call(c.v, a.v, Note(a.st, [ev |-> "callexpr", sc |-> sc, f |-> c.v, args |-> a.v,
                                       call |-> st.cur, heap |-> a.st.scopes]))

eval_args(args, i, sc, st, acc) ==
  IF i > Len(args) THEN Ok(acc, st)
  ELSE LET a == eval(args[i], sc, st) IN
       IF a.r # "ok" THEN a ELSE eval_args(args, i + 1, sc, a.st, Append(acc, a.v))

eval(e, sc, st) ==
  CASE e.k = "Asgn" ->
         LET a == eval(e.e, sc, st) IN
         IF a.r # "ok" THEN a
         ELSE LET b == asgn(sc, e.var, a.v, a.st) IN
              IF b.r # "ok" THEN b ELSE Ok(a.v, b.st)
    [] e.k = "Call" -> eval_call(e, sc, st)
    [] e.k = "And" ->
         LET a == eval(e.lhs, sc, st) IN
         IF a.r # "ok" THEN a
         ELSE IF left_decides("And", a.v) THEN a
         ELSE eval(e.rhs, sc, a.st)
    [] e.k = "Or" ->
         LET a == eval(e.lhs, sc, st) IN
         IF a.r # "ok" THEN a
         ELSE IF left_decides("Or", a.v) THEN a
         ELSE eval(e.rhs, sc, a.st)
    [] e.k \in {"Eq", "Ne", "Gt", "Ge", "Lt", "Le", "Add", "Sub", "Mul"} ->
         LET a == eval(e.lhs, sc, st) IN
         IF a.r # "ok" THEN a
         ELSE LET b == eval(e.rhs, sc, a.st) IN
              IF b.r # "ok" THEN b
              ELSE CASE e.k = "Eq" -> Ok(Boolean(val_eq(a.v, b.v)), b.st)
                     [] e.k = "Ne" -> Ok(Boolean(~val_eq(a.v, b.v)), b.st)
                     [] e.k = "Add" -> add_vals(a.v, b.v, b.st)
                     [] OTHER -> try_numeric(e.k, a.v, b.v, b.st)
    [] e.k = "Not" ->
         LET a == eval(e.arg, sc, st) IN
         IF a.r # "ok" THEN a
         ELSE Ok(not_val(a.v), Note(a.st, [ev |-> "not", arg |-> a.v, v |-> not_val(a.v)]))
    [] e.k = "Opp" ->
         LET a == eval(e.arg, sc, st) IN
         IF a.r # "ok" THEN a ELSE opp_val(a.v, a.st)
    [] e.k = "Lit" -> Ok(e.v, st)
    [] e.k = "Var" -> get(sc, e.var, st)

(***************************************************************************)
(* val.rs: Callable::call                                                  *)
(***************************************************************************)
\* for (p, a) in params.iter().zip(args) { inner.def(p, a) }
bind(params, args, i, sc, st) ==
  IF i > Len(params) THEN st
  ELSE bind(params, args, i + 1, sc,
            Note(def(sc, params[i], args[i], st),
                 [ev |-> "bind", call |-> sc, i |-> i, name |-> params[i], v |-> args[i]]))

call(f, args, st) ==
  IF f.kind = "Native"
  THEN IF arity_differs(f.arity, args)
       THEN Err(Note(Println(st, arity_message(f.arity, Len(args))),
                     [ev |-> "arity", f |-> f, args |-> args, call |-> st.cur,
                      heap |-> st.scopes]))
       ELSE Ok(native(f.f, args, st), Note(st, [ev |-> "native", f |-> f, call |-> st.cur]))
  ELSE IF arity_differs(Len(f.decl.params), args)
       THEN Err(Note(Println(st, arity_message(Len(f.decl.params), Len(args))),
                     [ev |-> "arity", f |-> f, args |-> args, call |-> st.cur,
                      heap |-> st.scopes]))
       ELSE IF st.fuel = 0 THEN Limit(st)
       ELSE LET s1 == inner(f.closure, st)
                id == Len(s1.scopes)
                s2 == Note([s1 EXCEPT !.cur = id, !.fuel = @ - 1],
                           [ev |-> "call", call |-> id, f |-> f, args |-> args,
                            caller |-> st.cur])
                s3 == bind(f.decl.params, args, 1, id, s2)
                b == exec(f.decl.body, id, s3)
                res == call_result(b)
            IN IF res.r # "ok" THEN [res EXCEPT !.st.cur = st.cur]
               ELSE [res EXCEPT !.st = Note([@ EXCEPT !.cur = st.cur],
                                            [ev |-> "exit", call |-> id, r |-> res.r, v |-> res.v])]

(***************************************************************************)
(* stmt.rs: Stmt::exec                                                     *)
(***************************************************************************)
\* for s in stmts { .. } of the Block arm, from statement i on
exec_block(stmts, i, sc, st) ==
  IF i > Len(stmts) THEN Ok(NoVal, st)
  ELSE LET r == exec(stmts[i], sc, st) IN
       IF r.r # "ok" THEN r
       ELSE IF propagates(r.v) THEN r
       ELSE exec_block(stmts, i + 1, sc, r.st)

\* the loop of the While arm
exec_while(s, sc, st) ==
  LET c == eval(s.cond, sc, Note(st, [ev |-> "cond", sc |-> sc, call |-> st.cur])) IN
  IF c.r # "ok" THEN c
  ELSE IF ~truthy(c.v) THEN Ok(NoVal, c.st)
  ELSE IF c.st.fuel = 0 THEN Limit(c.st)
  ELSE LET b == exec(s.body, sc, [c.st EXCEPT !.fuel = @ - 1]) IN
       IF b.r # "ok" THEN b
       ELSE IF propagates(b.v) THEN b
       ELSE exec_while(s, sc, b.st)

exec(s, sc, st0) ==
  LET st == Note(st0, [ev |-> "stmt", k |-> s.k, sc |-> sc, call |-> st0.cur]) IN
  CASE s.k = "Block" ->
         LET s1 == new_local(sc, st)
             id == Len(s1.scopes)
         IN exec_block(s.stmts, 1, id,
                       Note(s1, [ev |-> "block", outer |-> sc, inner |-> id,
                                 values |-> s1.scopes[id].values, call |-> st.cur]))
    [] s.k = "Expr" ->
         LET a == eval(s.e, sc, st) IN
         IF a.r # "ok" THEN a ELSE Ok(NoVal, a.st)
    [] s.k = "Print" ->
         LET a == eval(s.e, sc, st) IN
         IF a.r # "ok" THEN a
         ELSE Ok(NoVal, Note(Println(a.st, Display(a.v)),
                             [ev |-> "print", v |-> a.v, call |-> st.cur]))
    [] s.k = "Decl" ->
         LET a == IF s.init # <<>> THEN eval(s.init[1], sc, st) ELSE Ok(Nil, st) IN
         IF a.r # "ok" THEN a ELSE Ok(NoVal, def(sc, s.name, a.v, a.st))
    [] s.k = "If" ->
         LET c == eval(s.cond, sc, st) IN
         IF c.r # "ok" THEN c
         ELSE IF truthy(c.v) THEN exec(s.then, sc, c.st)
         ELSE IF s.else # <<>> THEN exec(s.else[1], sc, c.st)
         ELSE Ok(NoVal, c.st)
    [] s.k = "While" -> exec_while(s, sc, st)
    [] s.k = "Func" ->
         Ok(NoVal, def(sc, s.name, func_value(s, sc),
                       Note(st, [ev |-> "funcdecl", sc |-> sc, f |-> func_value(s, sc)])))
    [] s.k = "Return" ->
         LET a == IF s.ret # <<>> THEN eval(s.ret[1], sc, st) ELSE Ok(Nil, st) IN
         IF a.r # "ok" THEN a
         ELSE [a EXCEPT !.st = Note(@, [ev |-> "return", v |-> a.v, call |-> st.cur])]

(***************************************************************************)
(* resolver.rs: Resolver.  The resolver's state rs:                        *)
(*   scopes         the stack of local scope maps name -> defined?, the    *)
(*                  innermost last                                         *)
(*   curr_function  "None" or "Function"                                   *)
(*   err            "" while resolving; the error kind once the resolver   *)
(*                  has printed its message and stopped at todo!()         *)
(***************************************************************************)
\* Resolver::new
Resolver_new == [scopes |-> <<>>, curr_function |-> "None", err |-> ""]

Last(seq) == seq[Len(seq)]
ButLast(seq) == SubSeq(seq, 1, Len(seq) - 1)

\* a declaration that does not look for the name in the scope
declare_unchecked(var, rs) ==
  IF rs.scopes = <<>> THEN rs
  ELSE [rs EXCEPT !.scopes[Len(rs.scopes)] = (var :> FALSE) @@ @]

\* Resolver::declare
declare(var, rs) ==
  IF rs.scopes = <<>> THEN rs
  ELSE IF var \in DOMAIN Last(rs.scopes) THEN [rs EXCEPT !.err = "DuplicateInScope"]
  ELSE [rs EXCEPT !.scopes[Len(rs.scopes)] = (var :> FALSE) @@ @]

\* a definition that does not take a name the scope has defined
define_once(var, rs) ==
  IF rs.scopes = <<>> THEN rs
  ELSE IF var \in DOMAIN Last(rs.scopes) /\ Last(rs.scopes)[var]
       THEN [rs EXCEPT !.err = "DuplicateInScope"]
  ELSE [rs EXCEPT !.scopes[Len(rs.scopes)] = (var :> TRUE) @@ @]

\* Resolver::define
define(var, rs) ==
  IF rs.scopes = <<>> THEN rs
  ELSE [rs EXCEPT !.scopes[Len(rs.scopes)] = (var :> TRUE) @@ @]

\* Resolver::begin_scope
begin_scope(rs) == [rs EXCEPT !.scopes = Append(@, [n \in {} |-> FALSE])]

\* Resolver::end_scope
end_scope(rs) == [rs EXCEPT !.scopes = ButLast(@)]

\* scopes.iter().rev().enumerate().find(..): the index, counted from the innermost
\* scope, of the first scope holding the name; -1 when none does
RECURSIVE find_rev(_, _, _)
find_rev(stack, name, i) ==
  IF i >= Len(stack) THEN -1
  ELSE IF name \in DOMAIN stack[Len(stack) - i] THEN i
  ELSE find_rev(stack, name, i + 1)

\* a depth counted from the outermost scope instead of the innermost
resolve_local_outermost(var, rs) ==
  LET i == find_rev(rs.scopes, var.name, 0) IN
  IF i >= 0 THEN [var EXCEPT !.depth = Len(rs.scopes) - 1 - i] ELSE var

\* a depth added to the depth the reference already carries
resolve_local_relative(var, rs) ==
  LET i == find_rev(rs.scopes, var.name, 0) IN
  IF i >= 0 THEN [var EXCEPT !.depth = IF var.depth < 0 THEN i ELSE var.depth + i] ELSE var

\* Resolver::resolve_local
resolve_local(var, rs) ==
  LET i == find_rev(rs.scopes, var.name, 0) IN
  IF i >= 0 THEN [var EXCEPT !.depth = i] ELSE var

\* a test for a name that the innermost scope holds as defined
in_own_initializer_defined(var, rs) ==
  /\ rs.scopes # <<>>
  /\ var.name \in DOMAIN Last(rs.scopes)
  /\ Last(rs.scopes)[var.name]

\* the Var arm's test: the innermost scope holds the name as declared, not yet defined
in_own_initializer(var, rs) ==
  /\ rs.scopes # <<>>
  /\ var.name \in DOMAIN Last(rs.scopes)
  /\ ~Last(rs.scopes)[var.name]

\* the Return arm's test of the current-function marker
return_allowed(rs) == rs.curr_function # "None"

\* a marker left at Function on leaving the function
leave_function_unrestored(rs, enclosing_function) == rs

\* the Func arm's restoring of the marker on leaving the function
leave_function(rs, enclosing_function) == [rs EXCEPT !.curr_function = enclosing_function]

RECURSIVE resolve_expr(_, _), resolve_exprs(_, _, _, _), resolve_stmt(_, _),
          resolve_stmts(_, _, _, _), define_all(_, _, _)

\* for a in args { self.resolve_expr(a) }
resolve_exprs(es, i, rs, acc) ==
  IF i > Len(es) \/ rs.err # "" THEN [e |-> acc \o SubSeq(es, i, Len(es)), rs |-> rs]
  ELSE LET a == resolve_expr(es[i], rs) IN resolve_exprs(es, i + 1, a.rs, Append(acc, a.e))

\* Resolver::resolve_expr
resolve_expr(e, rs) ==
  CASE e.k = "Asgn" ->
         LET a == resolve_expr(e.e, rs) IN
         IF a.rs.err # "" THEN [e |-> e, rs |-> a.rs]
         ELSE [e |-> [e EXCEPT !.e = a.e, !.var = resolve_local(e.var, a.rs)], rs |-> a.rs]
    [] e.k = "Call" ->
         LET c == resolve_expr(e.callee, rs) IN
         IF c.rs.err # "" THEN [e |-> e, rs |-> c.rs]
         ELSE LET a == resolve_exprs(e.args, 1, c.rs, <<>>) IN
              [e |-> [e EXCEPT !.callee = c.e, !.args = a.e], rs |-> a.rs]
    [] e.k \in BinOps ->
         LET a == resolve_expr(e.lhs, rs) IN
         IF a.rs.err # "" THEN [e |-> e, rs |-> a.rs]
         ELSE LET b == resolve_expr(e.rhs, a.rs) IN
              [e |-> [e EXCEPT !.lhs = a.e, !.rhs = b.e], rs |-> b.rs]
    [] e.k \in {"Not", "Opp"} ->
         LET a == resolve_expr(e.arg, rs) IN [e |-> [e EXCEPT !.arg = a.e], rs |-> a.rs]
    [] e.k = "Lit" -> [e |-> e, rs |-> rs]
    [] e.k = "Var" ->
         IF in_own_initializer(e.var, rs)
         THEN [e |-> e, rs |-> [rs EXCEPT !.err = "SelfReferentialInitializer"]]
         ELSE [e |-> [e EXCEPT !.var = resolve_local(e.var, rs)], rs |-> rs]

\* for s in body { self.resolve_stmt(s) }
resolve_stmts(ss, i, rs, acc) ==
  IF i > Len(ss) \/ rs.err # "" THEN [s |-> acc \o SubSeq(ss, i, Len(ss)), rs |-> rs]
  ELSE LET a == resolve_stmt(ss[i], rs) IN resolve_stmts(ss, i + 1, a.rs, Append(acc, a.s))

\* for p in params { self.define(p) }
define_all(params, i, rs) ==
  IF i > Len(params) THEN rs ELSE define_all(params, i + 1, define(params[i], rs))

\* Resolver::resolve_stmt
resolve_stmt(s, rs) ==
  CASE s.k = "Block" ->
         LET a == resolve_stmts(s.stmts, 1, begin_scope(rs), <<>>) IN
         IF a.rs.err # "" THEN [s |-> [s EXCEPT !.stmts = a.s], rs |-> a.rs]
         ELSE [s |-> [s EXCEPT !.stmts = a.s], rs |-> end_scope(a.rs)]
    [] s.k \in {"Expr", "Print"} ->
         LET a == resolve_expr(s.e, rs) IN [s |-> [s EXCEPT !.e = a.e], rs |-> a.rs]
    [] s.k = "Decl" ->
         LET d == declare(s.name, rs) IN
         IF d.err # "" THEN [s |-> s, rs |-> d]
         ELSE IF s.init = <<>> THEN [s |-> s, rs |-> define(s.name, d)]
         ELSE LET a == resolve_expr(s.init[1], d) IN
              IF a.rs.err # "" THEN [s |-> s, rs |-> a.rs]
              ELSE [s |-> [s EXCEPT !.init = <<a.e>>], rs |-> define(s.name, a.rs)]
    [] s.k = "If" ->
         LET c == resolve_expr(s.cond, rs) IN
         IF c.rs.err # "" THEN [s |-> s, rs |-> c.rs]
         ELSE LET t == resolve_stmt(s.then, c.rs) IN
              IF t.rs.err # "" \/ s.else = <<>>
              THEN [s |-> [s EXCEPT !.cond = c.e, !.then = t.s], rs |-> t.rs]
              ELSE LET f == resolve_stmt(s.else[1], t.rs) IN
                   [s |-> [s EXCEPT !.cond = c.e, !.then = t.s, !.else = <<f.s>>], rs |-> f.rs]
    [] s.k = "While" ->
         LET c == resolve_expr(s.cond, rs) IN
         IF c.rs.err # "" THEN [s |-> s, rs |-> c.rs]
         ELSE LET b == resolve_stmt(s.body, c.rs) IN
              [s |-> [s EXCEPT !.cond = c.e, !.body = b.s], rs |-> b.rs]
    [] s.k = "Func" ->
         LET enclosing_function == rs.curr_function
             r1 == define_all(s.params, 1,
                              begin_scope([define(s.name, rs) EXCEPT !.curr_function = "Function"]))
             b == resolve_stmt(s.body, r1)
         IN IF b.rs.err # "" THEN [s |-> [s EXCEPT !.body = b.s], rs |-> b.rs]
            ELSE [s |-> [s EXCEPT !.body = b.s],
                  rs |-> leave_function(end_scope(b.rs), enclosing_function)]
    [] s.k = "Return" ->
         IF ~return_allowed(rs) THEN [s |-> s, rs |-> [rs EXCEPT !.err = "ReturnOutsideFunction"]]
         ELSE IF s.ret = <<>> THEN [s |-> s, rs |-> rs]
         ELSE LET a == resolve_expr(s.ret[1], rs) IN [s |-> [s EXCEPT !.ret = <<a.e>>], rs |-> a.rs]

\* Resolver::resolve
resolve(ast, rs) == resolve_stmts(ast, 1, rs, <<>>)

(***************************************************************************)
(* parser/rec_desc.rs: the loop parse_for assembles from the parts of a    *)
(* for statement.  An absent part (Option) is <<>>, a present one <<x>>.   *)
(***************************************************************************)
\* the body of the loop: the increment is pushed onto the statements of a body that
\* is a block, and put with the body into a new block otherwise
for_body(increment, body) ==
  IF increment # <<>>
  THEN IF body.k = "Block" THEN Block(Append(body.stmts, ExprStmt(increment[1])))
       ELSE Block(<<body, ExprStmt(increment[1])>>)
  ELSE body

\* the condition of the loop: literal true when the for has none
for_cond(cond) == IF cond = <<>> THEN Lit(Boolean(TRUE)) ELSE cond[1]

\* the statement parse_for returns
for_loop(init, cond, increment, body) ==
  LET desugared_loop == While(for_cond(cond), for_body(increment, body)) IN
  IF init # <<>> THEN Block(<<init[1], desugared_loop>>) ELSE desugared_loop

(***************************************************************************)
(* lexer/cursor.rs: Cursor.  The source text is a sequence of characters   *)
(* (strings of length one).  A cursor cu:                                  *)
(*   rest  the characters not yet consumed                                 *)
(*   col   the number of characters consumed                               *)
(*   row   the number of newlines consumed                                 *)
(*   bol   col as it was just after the last newline consumed              *)
(* An absent value (Option) is <<>>, a present one <<x>>.                   *)
(***************************************************************************)
\* Cursor::new
Cursor_new(text) == [rest |-> text, col |-> 0, row |-> 0, bol |-> 0]

\* Iterator::next for Cursor: consume one character, keeping row and bol
cursor_next(cu) ==
  IF cu.rest = <<>> THEN cu
  ELSE [rest |-> Tail(cu.rest),
        col |-> cu.col + 1,
        row |-> IF Head(cu.rest) = "\n" THEN cu.row + 1 ELSE cu.row,
        bol |-> IF Head(cu.rest) = "\n" THEN cu.col + 1 ELSE cu.bol]

\* Cursor::peek
peek(cu) == IF cu.rest = <<>> THEN <<>> ELSE <<Head(cu.rest)>>

\* Cursor::peek_snd: the character after the next
peek_snd(cu) == IF Len(cu.rest) < 2 THEN <<>> ELSE <<cu.rest[2]>>

\* a location that counts the column from the start of the text
Loc_from_start(cu) == [row |-> cu.row, col |-> cu.col]

\* Cursor::loc
Loc(cu) == [row |-> cu.row, col |-> cu.col - cu.bol]

\* Cursor::eat_while, the predicate given as the set of characters it accepts
RECURSIVE eat_while(_, _)
eat_while(cu, accepted) ==
  IF cu.rest # <<>> /\ Head(cu.rest) \in accepted THEN eat_while(cursor_next(cu), accepted)
  ELSE cu

(***************************************************************************)
(* lexer/mod.rs: Lexer                                                     *)
(***************************************************************************)
Digits == {"0", "1", "2", "3", "4", "5", "6", "7", "8", "9"}

\* char::is_ascii_alphabetic
Alphabetic ==
  {"a", "b", "c", "d", "e", "f", "g", "h", "i", "j", "k", "l", "m", "n", "o", "p", "q",
   "r", "s", "t", "u", "v", "w", "x", "y", "z",
   "A", "B", "C", "D", "E", "F", "G", "H", "I", "J", "K", "L", "M", "N", "O", "P", "Q",
   "R", "S", "T", "U", "V", "W", "X", "Y", "Z"}

\* char::is_whitespace, for the characters of the texts below
Whitespace == {" ", "\t", "\n", "\r"}

\* the characters the lexer gives a meaning, and two it does not
Symbols ==
  {"(", ")", "{", "}", ",", ".", "-", "+", ";", "*", "!", "=", "<", ">", "/", "\"", "_",
   "#", "@"}

AnyChar == Digits \cup Alphabetic \cup Whitespace \cup Symbols

\* the keyword table
KEYWORDS ==
  [and |-> "And", class |-> "Class", else |-> "Else", false |-> "False", fn |-> "Fn",
   for |-> "For", if |-> "If", let |-> "Let", nil |-> "Nil", or |-> "Or",
   print |-> "Print", return |-> "Return", this |-> "This", true |-> "True",
   while |-> "While"]

\* the single-character symbols
Single ==
  ("(" :> "LParen") @@ (")" :> "RParen") @@ ("{" :> "LBrace") @@ ("}" :> "RBrace")
  @@ ("," :> "Comma") @@ ("." :> "Dot") @@ ("-" :> "Minus") @@ ("+" :> "Plus")
  @@ (";" :> "Semicolon") @@ ("*" :> "Star")

\* the symbols that an = may follow: the one-character and the two-character kind
Double ==
  ("!" :> <<"Bang", "BangEqual">>) @@ ("=" :> <<"Equal", "EqualEqual">>)
  @@ ("<" :> <<"Less", "LessEqual">>) @@ (">" :> <<"Greater", "GreaterEqual">>)

\* Token, with the payload of the kinds String and Ident (s) and Number (x)
Token(kind, loc) == [kind |-> kind, loc |-> loc]
TokenS(kind, text, loc) == [kind |-> kind, s |-> text, loc |-> loc]
TokenX(value, loc) == [kind |-> "Number", x |-> value, loc |-> loc]

\* the buffer's characters as one string
RECURSIVE to_string(_)
to_string(buf) == IF buf = <<>> THEN "" ELSE Head(buf) \o to_string(Tail(buf))

\* Lexer::buf_while, the predicate given as the set of characters it accepts
RECURSIVE buf_while(_, _, _)
buf_while(cu, accepted, buf) ==
  IF cu.rest # <<>> /\ Head(cu.rest) \in accepted
  THEN buf_while(cursor_next(cu), accepted, Append(buf, Head(cu.rest)))
  ELSE [cu |-> cu, buf |-> buf]

DigitValue ==
  ("0" :> 0) @@ ("1" :> 1) @@ ("2" :> 2) @@ ("3" :> 3) @@ ("4" :> 4) @@ ("5" :> 5)
  @@ ("6" :> 6) @@ ("7" :> 7) @@ ("8" :> 8) @@ ("9" :> 9)

\* the number a sequence of digits writes, continuing from acc
RECURSIVE decimal(_, _)
decimal(ds, acc) ==
  IF ds = <<>> THEN acc ELSE decimal(Tail(ds), 10 * acc + DigitValue[Head(ds)])

\* the digits without the zeros at their end
RECURSIVE significant(_)
significant(ds) ==
  IF ds # <<>> /\ ds[Len(ds)] = "0" THEN significant(SubSeq(ds, 1, Len(ds) - 1)) ELSE ds

\* an f64 of the lexer: m / 10^e, with e = 0 or m not a multiple of 10
Fraction(m, e) == [m |-> m, e |-> e]

\* buf.parse::<f64>() for digits with at most one point among them (the values here
\* are exact; in f64 they are the nearest double)
parse_f64(buf) ==
  LET dots == {i \in DOMAIN buf : buf[i] = "."}
      dot == IF dots = {} THEN Len(buf) + 1 ELSE CHOOSE i \in dots : TRUE
      whole == SubSeq(buf, 1, dot - 1)
      frac == significant(SubSeq(buf, dot + 1, Len(buf)))
  IN Fraction(decimal(frac, decimal(whole, 0)), Len(frac))

\* the f64 as the payload of Val::Number: the evaluator's numbers are the integers, so
\* an integral f64 is its integer
f64_number(x) == IF x.e = 0 THEN x.m ELSE x

\* a test that takes every point after the digits into the number
fraction_follows_any(cu) == peek(cu) = <<".">>

\* the test of the digit arm: a point follows, and a digit follows the point
fraction_follows(cu) ==
  /\ peek(cu) = <<".">>
  /\ peek_snd(cu) # <<>> /\ peek_snd(cu)[1] \in Digits

\* the digit arm of next_raw, after the first digit x was consumed
number(x, cu) ==
  LET whole == buf_while(cu, Digits, <<x>>) IN
  IF fraction_follows(whole.cu)
  THEN LET frac == buf_while(cursor_next(whole.cu), Digits, Append(whole.buf, ".")) IN
       [kind |-> "Number", x |-> parse_f64(frac.buf), cu |-> frac.cu]
  ELSE [kind |-> "Number", x |-> parse_f64(whole.buf), cu |-> whole.cu]

\* Lexer::next_raw: the next token, comments included; tok is <<>> at the end
next_raw(cu0) ==
  LET cu == eat_while(cu0, Whitespace)
      loc == Loc(cu)
  IN IF cu.rest = <<>> THEN [tok |-> <<>>, cu |-> cu]
     ELSE LET c == Head(cu.rest)
              c1 == cursor_next(cu)
          IN CASE c \in DOMAIN Single -> [tok |-> <<Token(Single[c], loc)>>, cu |-> c1]
               [] c \in DOMAIN Double ->
                    IF peek(c1) = <<"=">>
                    THEN [tok |-> <<Token(Double[c][2], loc)>>, cu |-> cursor_next(c1)]
                    ELSE [tok |-> <<Token(Double[c][1], loc)>>, cu |-> c1]
               [] c = "/" ->
                    IF peek(c1) = <<"/">>
                    THEN [tok |-> <<Token("Comment", loc)>>,
                          cu |-> eat_while(cursor_next(c1), AnyChar \ {"\n"})]
                    ELSE [tok |-> <<Token("Slash", loc)>>, cu |-> c1]
               [] c = "\"" ->
                    LET b == buf_while(c1, AnyChar \ {"\""}, <<>>) IN
                    IF peek(b.cu) = <<"\"">>
                    THEN [tok |-> <<TokenS("String", to_string(b.buf), loc)>>,
                          cu |-> cursor_next(b.cu)]
                    ELSE [tok |-> <<Token("Unterminated", loc)>>, cu |-> b.cu]
               [] c \in Alphabetic \cup {"_"} ->
                    LET b == buf_while(c1, Alphabetic \cup Digits \cup {"_"}, <<c>>)
                        word == to_string(b.buf)
                    IN IF word \in DOMAIN KEYWORDS
                       THEN [tok |-> <<Token(KEYWORDS[word], loc)>>, cu |-> b.cu]
                       ELSE [tok |-> <<TokenS("Ident", word, loc)>>, cu |-> b.cu]
               [] c \in Digits ->
                    LET n == number(c, c1) IN [tok |-> <<TokenX(n.x, loc)>>, cu |-> n.cu]
               [] OTHER -> [tok |-> <<Token("Unexpected", loc)>>, cu |-> c1]

\* Iterator::next for Lexer: the next token that is not a comment
RECURSIVE Lexer_next(_)
Lexer_next(cu) ==
  LET t == next_raw(cu) IN
  IF t.tok # <<>> /\ t.tok[1].kind = "Comment" THEN Lexer_next(t.cu) ELSE t

\* the tokens of the whole text, as the parser draws them from the lexer
RECURSIVE tokens(_, _)
tokens(cu, acc) ==
  LET t == Lexer_next(cu) IN
  IF t.tok = <<>> THEN acc ELSE tokens(t.cu, Append(acc, t.tok[1]))

\* Lexer::new(text), read to its end
lex(text) == tokens(Cursor_new(text), <<>>)

(***************************************************************************)
(* parser/mod.rs, parser/rec_desc.rs: the recursive-descent parser.  The   *)
(* parser reads the lexer through a Peekable; here ts is the sequence of   *)
(* tokens not yet read.  A result is POk(value, tokens left) or PErr(e).   *)
(***************************************************************************)
POk(v, ts) == [ok |-> TRUE, v |-> v, ts |-> ts]
PErr(e) == [ok |-> FALSE, err |-> e]

\* error.rs: ParserError
ErrExpected(exp, fnd) == [e |-> "Expected", exp |-> exp, fnd |-> fnd]
TooManyParams(loc) == [e |-> "TooManyParams", loc |-> loc]
TooManyArgs(loc) == [e |-> "TooManyArgs", loc |-> loc]
InvalidAsgn(loc) == [e |-> "InvalidAsgn", loc |-> loc]
Unmatched(open, hint) == [e |-> "Unmatched", open |-> open, hint |-> hint]
Unexpected(tok) == [e |-> "Unexpected", tok |-> tok]
EOF == [e |-> "EOF"]

\* lexer.peek().is_some_and(|t| t.kind is one of kinds)
next_is(ts, kinds) == ts # <<>> /\ ts[1].kind \in kinds

\* lexer.peek().cloned()
peeked(ts) == IF ts = <<>> THEN <<>> ELSE <<ts[1]>>

\* lexer.peek().map(|t| t.loc)
peeked_loc(ts) == IF ts = <<>> THEN <<>> ELSE <<ts[1].loc>>

\* consume
consume(ts, expected) ==
  IF next_is(ts, {expected}) THEN POk(ts[1], Tail(ts))
  ELSE PErr(ErrExpected(expected, peeked(ts)))

\* consume_ident: the name and its location
consume_ident(ts) ==
  IF next_is(ts, {"Ident"}) THEN POk([name |-> ts[1].s, loc |-> ts[1].loc], Tail(ts))
  ELSE PErr(ErrExpected("Ident", peeked(ts)))

\* the Expr variant each operator token makes, level by level
LogOps == ("And" :> "And") @@ ("Or" :> "Or")
CmpOps ==
  ("BangEqual" :> "Ne") @@ ("EqualEqual" :> "Eq") @@ ("Less" :> "Lt") @@ ("Greater" :> "Gt")
  @@ ("LessEqual" :> "Le") @@ ("GreaterEqual" :> "Ge")
TermOps == ("Plus" :> "Add") @@ ("Minus" :> "Sub")
FactorOps == ("Star" :> "Mul") @@ ("Slash" :> "Div")

\* a test that lets one item more into a list
too_many_after(items) == Len(items) > 256

\* the test of parse_args and parse_params after an item was pushed: len() > 255
too_many(items) == Len(items) > 255

\* the ? of Rust on a parser result: an error is returned at once, and the rest of the
\* function goes on with a success
Try(r, rest(_)) == IF r.ok THEN rest(r) ELSE r

RECURSIVE parse_asgn(_), parse_log(_), parse_log_loop(_, _), parse_cmp(_),
          parse_cmp_loop(_, _), parse_term(_), parse_term_loop(_, _), parse_factor(_),
          parse_factor_loop(_, _), parse_unary(_), parse_call(_), parse_call_loop(_, _),
          parse_args(_), parse_args_loop(_, _), args_more(_, _), parse_primary(_),
          parse_group(_)

\* RecursiveDescent::<Expr>::parse
Expr_parse(ts) == parse_asgn(ts)

parse_asgn(ts) ==
  Try(parse_log(ts), LAMBDA target :
    IF next_is(target.ts, {"Equal"})
    THEN IF target.v.k = "Var"
         THEN Try(parse_asgn(Tail(target.ts)), LAMBDA value :
                POk(Asgn(target.v.var, value.v), value.ts))
         ELSE PErr(InvalidAsgn(peeked_loc(ts)[1]))
    ELSE target)

parse_log(ts) == Try(parse_cmp(ts), LAMBDA lhs : parse_log_loop(lhs.v, lhs.ts))

\* the while loop of parse_log
parse_log_loop(lhs, ts) ==
  IF next_is(ts, DOMAIN LogOps)
  THEN Try(parse_cmp(Tail(ts)), LAMBDA rhs :
         parse_log_loop(Bin(LogOps[ts[1].kind], lhs, rhs.v), rhs.ts))
  ELSE POk(lhs, ts)

parse_cmp(ts) == Try(parse_term(ts), LAMBDA lhs : parse_cmp_loop(lhs.v, lhs.ts))

\* the while loop of parse_cmp
parse_cmp_loop(lhs, ts) ==
  IF next_is(ts, DOMAIN CmpOps)
  THEN Try(parse_term(Tail(ts)), LAMBDA rhs :
         parse_cmp_loop(Bin(CmpOps[ts[1].kind], lhs, rhs.v), rhs.ts))
  ELSE POk(lhs, ts)

parse_term(ts) == Try(parse_factor(ts), LAMBDA lhs : parse_term_loop(lhs.v, lhs.ts))

\* the while loop of parse_term
parse_term_loop(lhs, ts) ==
  IF next_is(ts, DOMAIN TermOps)
  THEN Try(parse_factor(Tail(ts)), LAMBDA rhs :
         parse_term_loop(Bin(TermOps[ts[1].kind], lhs, rhs.v), rhs.ts))
  ELSE POk(lhs, ts)

parse_factor(ts) == Try(parse_unary(ts), LAMBDA lhs : parse_factor_loop(lhs.v, lhs.ts))

\* the while loop of parse_factor
parse_factor_loop(lhs, ts) ==
  IF next_is(ts, DOMAIN FactorOps)
  THEN Try(parse_unary(Tail(ts)), LAMBDA rhs :
         parse_factor_loop(Bin(FactorOps[ts[1].kind], lhs, rhs.v), rhs.ts))
  ELSE POk(lhs, ts)

parse_unary(ts) ==
  IF next_is(ts, {"Bang", "Minus"})
  THEN Try(parse_unary(Tail(ts)), LAMBDA arg :
         POk(IF ts[1].kind = "Bang" THEN Not(arg.v) ELSE Opp(arg.v), arg.ts))
  ELSE parse_call(ts)

parse_call(ts) ==
  Try(parse_primary(ts), LAMBDA callee : parse_call_loop(callee.v, callee.ts))

\* the while loop of parse_call
parse_call_loop(callee, ts) ==
  IF next_is(ts, {"LParen"})
  THEN Try(parse_args(Tail(ts)), LAMBDA args :
         IF next_is(args.ts, {"RParen"})
         THEN parse_call_loop(Call(callee, args.v), Tail(args.ts))
         ELSE PErr(Unmatched(ts[1], peeked_loc(args.ts))))
  ELSE POk(callee, ts)

parse_args(ts) ==
  IF ts # <<>> /\ ts[1].kind # "RParen"
  THEN Try(Expr_parse(ts), LAMBDA first : parse_args_loop(<<first.v>>, first.ts))
  ELSE POk(<<>>, ts)

\* the while loop of parse_args
parse_args_loop(args, ts) ==
  IF next_is(ts, {"Comma"})
  THEN Try(args_more(args, ts), LAMBDA more : parse_args_loop(more.v, more.ts))
  ELSE POk(args, ts)

\* one turn of the while loop of parse_args, the comma being next: the comma is
\* read, the location of the next token kept, an expression parsed and pushed
args_more(args, ts) ==
  Try(Expr_parse(Tail(ts)), LAMBDA arg :
    IF too_many(Append(args, arg.v)) THEN PErr(TooManyArgs(peeked_loc(Tail(ts))[1]))
    ELSE POk(Append(args, arg.v), arg.ts))

\* the expression between the parentheses of a primary: parse_log
parse_group(ts) == parse_log(ts)

parse_primary(ts) ==
  IF ts = <<>> THEN PErr(EOF)
  ELSE CASE ts[1].kind = "Nil" -> POk(Lit(Nil), Tail(ts))
         [] ts[1].kind = "True" -> POk(Lit(Boolean(TRUE)), Tail(ts))
         [] ts[1].kind = "False" -> POk(Lit(Boolean(FALSE)), Tail(ts))
         [] ts[1].kind = "Number" -> POk(Lit(Number(f64_number(ts[1].x))), Tail(ts))
         [] ts[1].kind = "String" -> POk(Lit(String(ts[1].s)), Tail(ts))
         [] ts[1].kind = "Ident" -> POk(Var(Variable(ts[1].s)), Tail(ts))
         [] ts[1].kind = "LParen" ->
              Try(parse_group(Tail(ts)), LAMBDA inner_expr :
                IF next_is(inner_expr.ts, {"RParen"})
                THEN POk(inner_expr.v, Tail(inner_expr.ts))
                ELSE PErr(Unmatched(ts[1], peeked_loc(inner_expr.ts))))
         [] OTHER -> PErr(Unexpected(ts[1]))

RECURSIVE Stmt_parse(_), parse_stmt(_), parse_stmt_head(_), parse_block(_),
          parse_block_loop(_, _), parse_fun_decl(_), parse_for(_)

\* an expression, given as Some(expression)
some_expr(ts) == Try(Expr_parse(ts), LAMBDA e : POk(<<e.v>>, e.ts))

\* parse_var_decl, after the let
parse_var_decl(ts) ==
  Try(consume_ident(ts), LAMBDA name :
  Try(IF next_is(name.ts, {"Equal"}) THEN some_expr(Tail(name.ts))
      ELSE POk(<<>>, name.ts), LAMBDA init :
  Try(consume(init.ts, "Semicolon"), LAMBDA semi :
    POk(Decl(name.v.name, init.v), semi.ts))))

\* one turn of the while loop of parse_params, the comma being next
params_more(params, ts) ==
  Try(consume_ident(Tail(ts)), LAMBDA name :
    IF too_many(Append(params, name.v.name)) THEN PErr(TooManyParams(name.v.loc))
    ELSE POk(Append(params, name.v.name), name.ts))

\* the while loop of parse_params
RECURSIVE parse_params_loop(_, _)
parse_params_loop(params, ts) ==
  IF next_is(ts, {"Comma"})
  THEN Try(params_more(params, ts), LAMBDA more : parse_params_loop(more.v, more.ts))
  ELSE POk(params, ts)

parse_params(ts) ==
  IF ts # <<>> /\ ts[1].kind # "RParen"
  THEN Try(consume_ident(ts), LAMBDA name : parse_params_loop(<<name.v.name>>, name.ts))
  ELSE POk(<<>>, ts)

\* RecursiveDescent::<Stmt>::parse
Stmt_parse(ts) ==
  IF next_is(ts, {"Let"}) THEN parse_var_decl(Tail(ts))
  ELSE IF next_is(ts, {"Fn"}) THEN parse_fun_decl(Tail(ts))
  ELSE parse_stmt(ts)

\* the while loop of parse_block
parse_block_loop(block, ts) ==
  IF ts # <<>> /\ ts[1].kind # "RBrace"
  THEN Try(Stmt_parse(ts), LAMBDA s : parse_block_loop(Append(block, s.v), s.ts))
  ELSE POk(Block(block), ts)

parse_block(ts) == parse_block_loop(<<>>, ts)

\* parse_fun_decl, after the fn
parse_fun_decl(ts) ==
  Try(consume_ident(ts), LAMBDA name :
  Try(consume(name.ts, "LParen"), LAMBDA lp :
  Try(parse_params(lp.ts), LAMBDA params :
  Try(consume(params.ts, "RParen"), LAMBDA rp :
  Try(consume(rp.ts, "LBrace"), LAMBDA lb :
  Try(parse_block(lb.ts), LAMBDA body :
  Try(consume(body.ts, "RBrace"), LAMBDA rb :
    POk(Func(name.v.name, params.v, body.v), rb.ts))))))))

\* the initializer of a for: none, a declaration, or an expression statement
for_init(ts) ==
  IF next_is(ts, {"Semicolon"}) THEN POk(<<>>, Tail(ts))
  ELSE IF next_is(ts, {"Let"})
  THEN Try(parse_var_decl(Tail(ts)), LAMBDA d : POk(<<d.v>>, d.ts))
  ELSE Try(Expr_parse(ts), LAMBDA e :
       Try(consume(e.ts, "Semicolon"), LAMBDA semi : POk(<<ExprStmt(e.v)>>, semi.ts)))

\* parse_for, after the for
parse_for(ts) ==
  Try(consume(ts, "LParen"), LAMBDA lp :
  Try(for_init(lp.ts), LAMBDA init :
  Try(IF next_is(init.ts, {"Semicolon"}) THEN POk(<<>>, init.ts)
      ELSE some_expr(init.ts), LAMBDA cond :
  Try(consume(cond.ts, "Semicolon"), LAMBDA semi :
  Try(IF next_is(semi.ts, {"RParen"}) THEN POk(<<>>, semi.ts)
      ELSE some_expr(semi.ts), LAMBDA increment :
  Try(consume(increment.ts, "RParen"), LAMBDA rp :
  Try(parse_stmt(rp.ts), LAMBDA body :
    POk(for_loop(init.v, cond.v, increment.v, body.v), body.ts))))))))

\* the first part of parse_stmt: the statement without its closing semicolon
parse_stmt_head(ts) ==
  CASE next_is(ts, {"LBrace"}) ->
         Try(parse_block(Tail(ts)), LAMBDA block :
         Try(consume(block.ts, "RBrace"), LAMBDA rb : POk(block.v, rb.ts)))
    [] next_is(ts, {"Print"}) ->
         Try(Expr_parse(Tail(ts)), LAMBDA e : POk(PrintStmt(e.v), e.ts))
    [] next_is(ts, {"If"}) ->
         Try(consume(Tail(ts), "LParen"), LAMBDA lp :
         Try(Expr_parse(lp.ts), LAMBDA cond :
         Try(consume(cond.ts, "RParen"), LAMBDA rp :
         Try(parse_stmt(rp.ts), LAMBDA body :
           IF next_is(body.ts, {"Else"})
           THEN Try(parse_stmt(Tail(body.ts)), LAMBDA otherwise :
                  POk(If(cond.v, body.v, <<otherwise.v>>), otherwise.ts))
           ELSE POk(If(cond.v, body.v, <<>>), body.ts)))))
    [] next_is(ts, {"While"}) ->
         Try(consume(Tail(ts), "LParen"), LAMBDA lp :
         Try(Expr_parse(lp.ts), LAMBDA cond :
         Try(consume(cond.ts, "RParen"), LAMBDA rp :
         Try(parse_stmt(rp.ts), LAMBDA body : POk(While(cond.v, body.v), body.ts)))))
    [] next_is(ts, {"For"}) -> parse_for(Tail(ts))
    [] next_is(ts, {"Return"}) ->
         IF next_is(Tail(ts), {"Semicolon"}) THEN POk(Return(<<>>), Tail(ts))
         ELSE Try(Expr_parse(Tail(ts)), LAMBDA e : POk(Return(<<e.v>>), e.ts))
    [] OTHER -> Try(Expr_parse(ts), LAMBDA e : POk(ExprStmt(e.v), e.ts))

parse_stmt(ts) ==
  Try(parse_stmt_head(ts), LAMBDA stmt :
    IF stmt.v.k \in {"Expr", "Decl", "Print", "Return"}
    THEN Try(consume(stmt.ts, "Semicolon"), LAMBDA semi : POk(stmt.v, semi.ts))
    ELSE stmt)

\* RecursiveDescent::<Prog>::parse
RECURSIVE Prog_parse(_, _)
Prog_parse(ts, stmts) ==
  IF ts = <<>> THEN POk(stmts, ts)
  ELSE Try(Stmt_parse(ts), LAMBDA s : Prog_parse(s.ts, Append(stmts, s.v)))

(***************************************************************************)
(* Programs                                                                *)
(***************************************************************************)
V(name) == Var(Variable(name))
Num(x) == Lit(Number(x))
Str(x) == Lit(String(x))
Assign(name, e) == Asgn(Variable(name), e)
CallOf(name, args) == Call(V(name), args)

\* Scenario A with two counters; calls[i] says which counter the i-th call uses
MakeCounter ==
  Func("makeCounter", <<>>, Block(<<
    Decl("n", <<Num(0)>>),
    Func("count", <<>>, Block(<<
      ExprStmt(Assign("n", Bin("Add", V("n"), Num(1)))),
      Return(<<V("n")>>) >>)),
    Return(<<V("count")>> ) >>))

CounterName(c) == IF c = 1 THEN "c1" ELSE "c2"

CounterProgram(calls) ==
  <<MakeCounter, Decl("c1", <<CallOf("makeCounter", <<>>)>>),
    Decl("c2", <<CallOf("makeCounter", <<>>)>>)>>
  \o [i \in 1..Len(calls) |-> PrintStmt(CallOf(CounterName(calls[i]), <<>>))]

CallSeqs == [1..MaxCalls -> {1, 2}]

CounterPrograms == {CounterProgram(calls) : calls \in CallSeqs}

\* Scenario D: print !v;
SampleVals ==
  {Nil, Boolean(FALSE), Boolean(TRUE), String(""), String("a")} \cup {Number(i) : i \in 0..MaxNum}

NotPrograms == {<<PrintStmt(Not(Lit(v)))>> : v \in SampleVals}

\* let x = 0; fn g() { gb } fn f(a) { body } let r = f(v); print r;
\* with bodies of up to two statements that return, print, assign, branch and loop
Returns == {Return(<<>>), Return(<<V("a")>>), Return(<<CallOf("g", <<>>)>>)}

BodyStmts ==
  Returns
  \cup {PrintStmt(Str("m")), ExprStmt(Assign("x", Num(1)))}
  \cup {If(V("a"), s, <<>>) : s \in Returns}
  \cup {If(V("a"), Block(<<Return(<<Num(1)>>)>>), <<PrintStmt(Str("e"))>>)}
  \cup {While(V("a"), Block(<<s>>)) : s \in Returns \cup {ExprStmt(Assign("a", Lit(Nil)))}}
  \cup {While(V("a"), Return(<<V("a")>>)), Block(<<Block(<<Return(<<V("a")>>)>>)>>)}

Bodies == {<<>>} \cup {<<s>> : s \in BodyStmts} \cup {<<s, t>> : s \in BodyStmts, t \in BodyStmts}

FunctionProgram(gb, body, v) ==
  <<Decl("x", <<Num(0)>>), Func("g", <<>>, Block(gb)), Func("f", <<"a">>, Block(body)),
    Decl("r", <<CallOf("f", <<Lit(v)>>)>>), PrintStmt(V("r"))>>

FunctionPrograms ==
  {FunctionProgram(gb, body, v) :
     gb \in {<<>>, <<Return(<<Num(1)>>)>>}, body \in Bodies, v \in {Nil, Number(1)}}

\* fn f(params) { print "f"; print each parameter; }  f(args);   and   print clock(args);
ArgLists ==
  {<<>>} \cup {<<a>> : a \in {Num(1), Str("s")}}
  \cup {<<a, b>> : a \in {Num(1), Str("s")}, b \in {Num(2), Str("t")}}
  \cup {<<Num(1), Num(2), c>> : c \in {Num(3), Str("u")}}

ParamLists == {<<>>, <<"a">>, <<"a", "b">>}

ArityProgram(params, args) ==
  <<Func("f", params,
         Block(<<PrintStmt(Str("f"))>> \o [i \in 1..Len(params) |-> PrintStmt(V(params[i]))])),
    ExprStmt(CallOf("f", args)), PrintStmt(Str("end"))>>

ArityPrograms ==
  {ArityProgram(params, args) : params \in ParamLists, args \in ArgLists}
  \cup {<<PrintStmt(CallOf("clock", args)), PrintStmt(Str("end"))>> : args \in ArgLists}

\* A function f whose body reads and writes the free variable x, declared at top level
\* or in a block that has its own x, and called from a place that has another x
Bump == Func("f", <<>>, Block(<<ExprStmt(Assign("x", Bin("Add", V("x"), Str("!")))),
                               Return(<<V("x")>>)>>))

CallFromBlock ==
  <<Block(<<Decl("x", <<Str("c")>>), PrintStmt(CallOf("f", <<>>)), PrintStmt(V("x"))>>)>>

CallSites ==
  { <<PrintStmt(CallOf("f", <<>>))>>,
    CallFromBlock,
    <<Func("h", <<"x">>, Block(<<Decl("r", <<CallOf("f", <<>>)>>), PrintStmt(V("x")),
                                 Return(<<V("r")>>)>>)),
      PrintStmt(CallOf("h", <<Str("c")>>))>>,
    <<Func("h", <<>>, Block(<<Decl("x", <<Str("c")>>), PrintStmt(CallOf("f", <<>>)),
                              PrintStmt(V("x"))>>)),
      ExprStmt(CallOf("h", <<>>))>> }

ClosureProgram(local, site) ==
  IF local
  THEN <<Decl("x", <<Str("g")>>),
         Block(<<Decl("x", <<Str("d")>>), Bump>> \o site \o <<PrintStmt(V("x"))>>),
         PrintStmt(V("x"))>>
  ELSE <<Decl("x", <<Str("g")>>), Bump>> \o site \o <<PrintStmt(V("x"))>>

ClosurePrograms == {ClosureProgram(local, site) : local \in BOOLEAN, site \in CallSites}

\* Scenario F: let x = v1; { let x = v2; print x; } print x;   at top level and in a block
ShadowVals == {Nil, String("a")} \cup {Number(i) : i \in 0..MaxNum}

Shadow(v1, v2) ==
  <<Decl("x", <<Lit(v1)>>), Block(<<Decl("x", <<Lit(v2)>>), PrintStmt(V("x"))>>),
    PrintStmt(V("x"))>>

ShadowPrograms ==
  {Shadow(v1, v2) : v1 \in ShadowVals, v2 \in ShadowVals}
  \cup {<<Block(Shadow(v1, v2))>> : v1 \in ShadowVals, v2 \in ShadowVals}

\* Small programs over the names x and y that nest blocks, functions, branches and
\* loops around declarations, references, assignments and returns
Names == {"x", "y"}

Decls ==
  {Decl(n, <<>>) : n \in Names}
  \cup {Decl("x", <<Num(1)>>), Decl("y", <<V("x")>>), Decl("x", <<V("x")>>),
        Decl("x", <<Assign("x", Num(1))>>)}

\* the statements a branch of if and the body of while may be besides a block
Plain ==
  {ExprStmt(V(n)) : n \in Names}
  \cup {ExprStmt(Assign("x", Num(1))), ExprStmt(Assign("y", V("x")))}
  \cup {Return(<<>>), Return(<<V("x")>>)}

Simple == Decls \cup Plain

Nested1 ==
  {Block(<<a>>) : a \in Simple}
  \cup {Block(<<a, b>>) : a \in Simple, b \in Simple}
  \cup {Func("f", ps, Block(<<a>>)) : ps \in {<<>>, <<"x">>}, a \in Simple}
  \cup {If(Lit(Boolean(TRUE)), a, <<>>) : a \in Plain}
  \cup {If(Lit(Boolean(FALSE)), a, <<b>>) : a \in {Return(<<>>), ExprStmt(V("x"))},
                                           b \in {Return(<<>>), ExprStmt(V("y"))}}
  \cup {While(Lit(Boolean(FALSE)), a) : a \in Plain}

Nested2 ==
  {Block(<<a, b>>) : a \in {Decl("x", <<>>), Decl("y", <<Num(1)>>)}, b \in Nested1}
  \cup {Func("f", <<"y">>, Block(<<b>>)) : b \in Nested1}
  \cup {Block(<<Decl("x", <<>>), Block(<<Decl("y", <<>>), b>>)>>) : b \in Nested1}
  \cup {If(V("x"), Block(<<b>>), <<>>) : b \in Nested1}
  \cup {While(Lit(Boolean(FALSE)), Block(<<Decl("y", <<>>), b>>)) : b \in Nested1}

ResolverPrograms ==
  {<<s>> : s \in Simple \cup Nested1 \cup Nested2}
  \cup {<<Func("f", <<>>, Block(<<a>>)), b>> : a \in {Return(<<>>), Decl("x", <<>>)},
                                             b \in Simple \cup Nested1}

\* let x = v1; print x; let x = v2; print x;
Redecl(v1, v2) ==
  <<Decl("x", <<Lit(v1)>>), PrintStmt(V("x")), Decl("x", <<Lit(v2)>>), PrintStmt(V("x"))>>

RedeclPrograms == {Redecl(v1, v2) : v1 \in ShadowVals, v2 \in ShadowVals}

\* let x = 0; fn f() { print "f"; return "r"; } print l op r; print x;
\* where r assigns to x, reads an undefined variable or calls f
Rights == {Assign("x", Num(1)), V("u"), CallOf("f", <<>>)}

LogicProgram(op, l, r) ==
  <<Decl("x", <<Num(0)>>),
    Func("f", <<>>, Block(<<PrintStmt(Str("f")), Return(<<Str("r")>>)>>)),
    PrintStmt(Bin(op, Lit(l), r)), PrintStmt(V("x"))>>

LogicPrograms ==
  {LogicProgram(op, l, r) : op \in {"And", "Or"}, l \in SampleVals, r \in Rights}

\* Programs that compare function values
Empty(name) == Func(name, <<>>, Block(<<>>))

\* fn f() {} let a = f; fn f() {} print a == f;
TwinDecls ==
  <<Empty("f"), Decl("a", <<V("f")>>), Empty("f"), PrintStmt(Bin("Eq", V("a"), V("f")))>>

\* fn f() {} let a = f; fn f() { print "m"; } print a == f;
OtherDecls ==
  <<Empty("f"), Decl("a", <<V("f")>>), Func("f", <<>>, Block(<<PrintStmt(Str("m"))>>)),
    PrintStmt(Bin("Eq", V("a"), V("f")))>>

\* fn f() {} let a = f; print a == f; print a != f;
OneDecl ==
  <<Empty("f"), Decl("a", <<V("f")>>), PrintStmt(Bin("Eq", V("a"), V("f"))),
    PrintStmt(Bin("Ne", V("a"), V("f")))>>

\* fn mk() { fn g() {} return g; } let a = mk(); let b = mk(); print a == b; print a == a;
TwoClosures ==
  <<Func("mk", <<>>, Block(<<Empty("g"), Return(<<V("g")>>)>>)),
    Decl("a", <<CallOf("mk", <<>>)>>), Decl("b", <<CallOf("mk", <<>>)>>),
    PrintStmt(Bin("Eq", V("a"), V("b"))), PrintStmt(Bin("Eq", V("a"), V("a")))>>

\* fn f() {} print f == clock; print clock == clock;
WithNative ==
  <<Empty("f"), PrintStmt(Bin("Eq", V("f"), V("clock"))),
    PrintStmt(Bin("Eq", V("clock"), V("clock")))>>

EqPrograms == {TwinDecls, OtherDecls, OneDecl, TwoClosures, WithNative}

\* Programs with a for statement, at top level or in a function:
\*   let i = 0; let s = 0; for (I; C; U) B print s; print i;
\*   let i = 0; let s = 0; fn f() { for (I; C; U) B return "end"; } print f(); print s; print i;
ForInits == {<<>>, <<Decl("i", <<Num(0)>>)>>, <<ExprStmt(Assign("s", Num(MaxNum)))>>}

ForConds == {<<>>, <<Bin("Lt", V("i"), Num(2))>>}

ForIncrs == {<<>>, <<Assign("i", Bin("Add", V("i"), Num(1)))>>}

ForBodies ==
  { PrintStmt(V("i")),
    ExprStmt(Assign("s", Bin("Add", V("s"), V("i")))),
    Block(<<PrintStmt(V("i")), ExprStmt(Assign("s", Bin("Add", V("s"), V("i"))))>>),
    Block(<<>>),
    Block(<<Decl("i", <<Str("b")>>), PrintStmt(V("i"))>>),
    Block(<<Decl("t", <<V("i")>>), PrintStmt(V("t"))>>),
    Return(<<V("i")>>),
    If(Bin("Ge", V("i"), Num(1)), Return(<<V("s")>>), <<>>),
    Block(<<PrintStmt(V("i")), If(Bin("Ge", V("i"), Num(1)), Return(<<>>), <<>>)>>) }

Around(wrapped, loop) ==
  <<Decl("i", <<Num(0)>>), Decl("s", <<Num(0)>>)>>
  \o (IF wrapped
      THEN <<Func("f", <<>>, Block(<<loop, Return(<<Str("end")>>)>>)),
             PrintStmt(CallOf("f", <<>>))>>
      ELSE <<loop>>)
  \o <<PrintStmt(V("s")), PrintStmt(V("i"))>>

ForProgram(wrapped, init, cond, incr, body) == Around(wrapped, for_loop(init, cond, incr, body))

ForPrograms ==
  {ForProgram(wrapped, init, cond, incr, body) :
     wrapped \in BOOLEAN, init \in ForInits, cond \in ForConds, incr \in ForIncrs,
     body \in ForBodies}

\* { let x = 1; { x; } }
NestedRead == <<Block(<<Decl("x", <<Num(1)>>), Block(<<ExprStmt(V("x"))>>)>>)>>

\* while (true) {}
Forever == <<While(Lit(Boolean(TRUE)), Block(<<>>))>>

\* let a = "g"; { fn show() { use } call let a = "b"; call print a; } print a;
\* where use reads or writes a, and call calls show
Uses ==
  {<<PrintStmt(V("a"))>>,
   <<Block(<<PrintStmt(V("a"))>>)>>,
   <<ExprStmt(Assign("a", Bin("Add", V("a"), Str("!")))), PrintStmt(V("a"))>>}

ShowCalls == {ExprStmt(CallOf("show", <<>>)), Block(<<ExprStmt(CallOf("show", <<>>))>>)}

Capture(use, site) ==
  <<Decl("a", <<Str("g")>>),
    Block(<<Func("show", <<>>, Block(use)), site, Decl("a", <<Str("b")>>), site,
            PrintStmt(V("a"))>>),
    PrintStmt(V("a"))>>

CapturePrograms == {Capture(use, site) : use \in Uses, site \in ShowCalls}

\* first fn f() { return "2"; } print f(); fn g(params) { print a; } g("1", ..);
\* where first declares f as well and params repeats a, in a block and at top level
Firsts == {Func("f", <<>>, Block(<<Return(<<Str("1")>>)>>)), Decl("f", <<Str("v")>>)}

Repeats == {<<"a", "a">>, <<"a", "b", "a">>, <<"a", "a", "b">>}

Numbered == <<Str("1"), Str("2"), Str("3")>>

Twice(first, params) ==
  <<first, Func("f", <<>>, Block(<<Return(<<Str("2")>>)>>)), PrintStmt(CallOf("f", <<>>)),
    Func("g", params, Block(<<PrintStmt(V("a"))>>)),
    ExprStmt(CallOf("g", SubSeq(Numbered, 1, Len(params))))>>

DuplicatePrograms ==
  {Twice(first, params) : first \in Firsts, params \in Repeats}
  \cup {<<Block(Twice(first, params))>> : first \in Firsts, params \in Repeats}

Programs ==
  CounterPrograms \cup NotPrograms \cup FunctionPrograms \cup ArityPrograms
  \cup ClosurePrograms \cup ShadowPrograms \cup ResolverPrograms \cup {NestedRead, Forever}
  \cup RedeclPrograms \cup LogicPrograms \cup EqPrograms \cup ForPrograms
  \cup CapturePrograms \cup DuplicatePrograms

(***************************************************************************)
(* Source texts: a text is a sequence of one-character strings, a lexeme   *)
(* the characters of one token.                                            *)
(***************************************************************************)
\* the bound on the length of the texts made of digits, points and spaces
MaxLen == 5

\* the texts over the characters cs of length n at most
RECURSIVE Texts(_, _)
Texts(cs, n) ==
  IF n = 0 THEN {<<>>}
  ELSE LET shorter == Texts(cs, n - 1) IN
       shorter \cup {Append(t, c) : t \in shorter, c \in cs}

\* the texts of the number tests (lexer/mod.rs, test_lexer_numbers) and of the
\* digit arm's cases
NumberExamples ==
  {<<"1", "2", "3", ".", "4", "5", "6">>, <<"1", "2", "3", ".">>, <<".", "4", "5", "6">>,
    <<"1", ".", "2", ".", "3">>,
   <<"1", "2", "3", " ", "1", "2", "3", ".", "4", "5", "6", " ", ".", "4", "5", "6", " ",
     "1", "2", "3", ".">>}

NumberTexts == Texts({"0", "1", ".", " "}, MaxLen) \cup NumberExamples

\* the bound on the length of the texts of names, white space, comments and strings
MaxGap == 4

\* the text of the lexer's white-space test (lexer/mod.rs, test_lexer_whitespace)
WhitespaceTest ==
  <<"s", "p", "a", "c", "e", " ", " ", " ", " ", "t", "a", "b", "s", "\t", "\t", "\t",
    "\t", "n", "e", "w", "l", "i", "n", "e", "\n", "\n", "\n", "e", "n", "d", "\r", "\n">>

\* a text with a comment and a string over two lines
CommentAndString ==
  <<"a", " ", "/", "/", " ", "c", " ", "\"", "\n", "\"", "x", "\n", "y", "\"", " ", "b">>

LayoutExamples == {WhitespaceTest, CommentAndString}

LayoutTexts == Texts({"a", " ", "\t", "\r", "\n", "/", "\""}, MaxGap) \cup LayoutExamples

\* the lexemes, one space between two of them
RECURSIVE Join(_)
Join(lexemes) ==
  IF lexemes = <<>> THEN <<>>
  ELSE IF Len(lexemes) = 1 THEN lexemes[1]
  ELSE lexemes[1] \o <<" ">> \o Join(Tail(lexemes))

\* the lexeme of each binary operator
OpText ==
  [And |-> <<"a", "n", "d">>, Or |-> <<"o", "r">>, Eq |-> <<"=", "=">>,
   Ne |-> <<"!", "=">>, Lt |-> <<"<">>, Le |-> <<"<", "=">>, Gt |-> <<">">>,
   Ge |-> <<">", "=">>, Add |-> <<"+">>, Sub |-> <<"-">>, Mul |-> <<"*">>,
   Div |-> <<"/">>]

\* the lexeme of a literal: a one-digit number, a one-character string, a keyword
LitText(v) ==
  CASE v.t = "Nil" -> <<"n", "i", "l">>
    [] v.t = "Boolean" ->
         IF v.b THEN <<"t", "r", "u", "e">> ELSE <<"f", "a", "l", "s", "e">>
    [] v.t = "Number" -> <<CHOOSE d \in Digits : DigitValue[d] = v.n>>
    [] v.t = "String" -> <<"\"", v.s, "\"">>

\* the level of the grammar that derives an expression with this top node
Level(e) ==
  CASE e.k = "Asgn" -> 1
    [] e.k \in {"And", "Or"} -> 2
    [] e.k \in {"Eq", "Ne", "Lt", "Le", "Gt", "Ge"} -> 3
    [] e.k \in {"Add", "Sub"} -> 4
    [] e.k \in {"Mul", "Div"} -> 5
    [] e.k \in {"Not", "Opp"} -> 6
    [] e.k = "Call" -> 7
    [] OTHER -> 8

\* the lexemes that write the expression e where the grammar asks for an expression of
\* level min at least: in parentheses when the level of e is lower, or where every
\* operand is to be parenthesised (all); the operands of a binary level are written at
\* that level on the left and one level up on the right, the names are one letter long
RECURSIVE Unparse(_, _, _), UnparseArgs(_, _, _)
Unparse(e, min, all) ==
  LET bare ==
        CASE e.k = "Asgn" -> <<<<e.var.name>>, <<"=">>>> \o Unparse(e.e, 1, all)
          [] e.k \in DOMAIN OpText ->
               Unparse(e.lhs, Level(e), all) \o <<OpText[e.k]>>
               \o Unparse(e.rhs, Level(e) + 1, all)
          [] e.k = "Not" -> <<<<"!">>>> \o Unparse(e.arg, 6, all)
          [] e.k = "Opp" -> <<<<"-">>>> \o Unparse(e.arg, 6, all)
          [] e.k = "Call" ->
               Unparse(e.callee, 7, all) \o <<<<"(">>>> \o UnparseArgs(e.args, 1, all)
               \o <<<<")">>>>
          [] e.k = "Var" -> <<<<e.var.name>>>>
          [] e.k = "Lit" -> <<LitText(e.v)>>
  IN IF Level(e) < min \/ (all /\ Level(e) < 8 /\ min > 0)
     THEN <<<<"(">>>> \o bare \o <<<<")">>>>
     ELSE bare

UnparseArgs(args, i, all) ==
  IF i > Len(args) THEN <<>>
  ELSE (IF i > 1 THEN <<<<",">>>> ELSE <<>>) \o Unparse(args[i], 1, all)
       \o UnparseArgs(args, i + 1, all)

\* the text of the expression statement e ;
ExprText(e, all) == Join(Unparse(e, 0, all) \o <<<<";">>>>)

\* the expressions of one node over a name and a number
Atoms == {Var(Variable("a")), Lit(Number(1))}

Shallow ==
  Atoms
  \cup {Bin(op, Var(Variable("a")), Lit(Number(1))) : op \in DOMAIN OpText}
  \cup {Not(Var(Variable("a"))), Opp(Lit(Number(1))),
        Asgn(Variable("a"), Lit(Number(1))),
        Call(Var(Variable("a")), <<>>), Call(Var(Variable("a")), <<Lit(Number(1))>>)}

\* the expressions of two levels of nodes, and the ones of the parser's tests
Exprs ==
  Shallow
  \cup {Bin(op, l, r) : op \in DOMAIN OpText, l \in Shallow, r \in Shallow}
  \cup {Not(x) : x \in Shallow} \cup {Opp(x) : x \in Shallow}
  \cup {Asgn(Variable("b"), x) : x \in Shallow}
  \cup {Call(x, <<>>) : x \in Shallow}
  \cup {Call(Var(Variable("f")), <<x, y>>) : x \in Shallow, y \in Atoms}
  \cup {Bin("Add", Bin("Add", Lit(Number(6)), Lit(Number(3))), Lit(Number(8))),
        Asgn(Variable("a"), Asgn(Variable("b"), Lit(Number(3)))),
        Bin("Add", Var(Variable("x")), Bin("Add", Lit(Number(3)), Lit(Number(8)))),
        Asgn(Variable("x"),
             Bin("And", Lit(Boolean(TRUE)),
                 Bin("Ne", Lit(Number(0)),
                     Bin("Add", Lit(Number(2)),
                         Bin("Div", Lit(Number(6)), Opp(Not(Lit(Boolean(FALSE))))))))),
        Bin("And",
            Bin("Ne", Bin("Add", Bin("Div", Not(Lit(Boolean(FALSE))), Lit(Number(6))),
                          Lit(Number(2))),
                Lit(Number(0))),
            Lit(Boolean(TRUE)))}

ExprTexts == {ExprText(e, all) : e \in Exprs, all \in BOOLEAN}

\* the text of the expression statement ( e ) ;
GroupText(e) == Join(<<<<"(">>>> \o Unparse(e, 1, FALSE) \o <<<<")">>, <<";">>>>)

GroupTexts == {GroupText(e) : e \in Shallow}

\* what may stand to the left of an = : a bare name, and what is not one
BareTarget == <<<<"a">>>>

OtherTargets ==
  {<<<<"6">>>>, <<<<"\"", "s", "\"">>>>, <<<<"t", "r", "u", "e">>>>,
   <<<<"f", "a", "l", "s", "e">>>>, <<<<"n", "i", "l">>>>,
   <<<<"-">>, <<"a">>>>, <<<<"!">>, <<"a">>>>,
   <<<<"a">>, <<"+">>, <<"b">>>>, <<<<"a">>, <<"*">>, <<"b">>>>,
   <<<<"a">>, <<"=", "=">>, <<"b">>>>, <<<<"a">>, <<"<">>, <<"b">>>>,
   <<<<"a">>, <<"a", "n", "d">>, <<"b">>>>, <<<<"a">>, <<"o", "r">>, <<"b">>>>,
   <<<<"f">>, <<"(">>, <<")">>>>, <<<<"f">>, <<"(">>, <<"a">>, <<")">>>>,
   <<<<"(">>, <<"a">>, <<")">>>>, <<<<"(">>, <<"6">>, <<")">>>>,
   <<<<"(">>, <<"a">>, <<"+">>, <<"b">>, <<")">>>>,
   <<<<"(">>, <<"(">>, <<"a">>, <<")">>, <<")">>>>}

Targets == {BareTarget} \cup OtherTargets

\* what stands before the assignment: nothing, the target of an outer assignment, print
Before == {<<>>, <<<<"b">>, <<"=">>>>, <<<<"p", "r", "i", "n", "t">>>>}

\* the text  before target = 3 ;
AsgnText(before, target) == Join(before \o target \o <<<<"=">>, <<"3">>, <<";">>>>)

\* the column of the first character of the target in that text
TargetCol(before) == IF before = <<>> THEN 0 ELSE Len(Join(before)) + 1

AsgnTexts == {AsgnText(before, target) : before \in Before, target \in Targets}

\* texts of whole programs: every kind of statement, and texts the parser rejects
ProgramTexts ==
  {<<"l", "e", "t", " ", "s", " ", "=", " ", "0", ";", "\n", "f", "o", "r", " ", "(",
    "l", "e", "t", " ", "i", " ", "=", " ", "1", ";", " ", "i", " ", "<", "=", " ", "2",
    ";", " ", "i", " ", "=", " ", "i", " ", "+", " ", "1", ")", " ", "{", " ", "s", " ",
    "=", " ", "s", " ", "+", " ", "i", ";", " ", "}", "\n", "p", "r", "i", "n", "t", " ",
    "s", ";", " ", "/", "/", " ", "d", "o", "n", "e">>,
   <<"f", "n", " ", "f", "(", "a", ",", " ", "b", ")", " ", "{", " ", "i", "f", " ", "(",
     "a", ")", " ", "r", "e", "t", "u", "r", "n", " ", "b", ";", " ", "e", "l", "s", "e",
     " ", "{", " ", "w", "h", "i", "l", "e", " ", "(", "a", ")", " ", "a", " ", "=", " ",
     "n", "i", "l", ";", " ", "}", " ", "r", "e", "t", "u", "r", "n", ";", " ", "}",
     "\n", "f", "(", "1", ",", " ", "\"", "s", "\"", ")", ";">>,
   <<"f", "o", "r", " ", "(", ";", ";", ")", " ", "p", "r", "i", "n", "t", " ", "1",
     ";">>,
   <<"p", "r", "i", "n", "t", " ", "\"", "a", "b", "c">>,
   <<"{", " ", "l", "e", "t", " ", "x", " ", "=", " ", "1", ";">>}

\* texts that open a delimiter and do not close it: the text up to where the
\* closing delimiter is required, the kind and the column of the opening token
Opened ==
  {[text |-> <<"(", "a">>, kind |-> "LParen", col |-> 0],
   [text |-> <<"f", "(", "a">>, kind |-> "LParen", col |-> 1],
   [text |-> <<"{", "a", ";">>, kind |-> "LBrace", col |-> 0],
   [text |-> <<"f", "n", " ", "f", "(", ")", "{", "a", ";">>, kind |-> "LBrace", col |-> 6]}

\* what stands where the closing delimiter is required: nothing, or another token
Instead(kind) == IF kind = "LParen" THEN {<<>>, <<";">>, <<"}">>} ELSE {<<>>, <<")">>}

UnclosedTexts == {o.text \o i : o \in Opened, i \in Instead("LParen") \cup Instead("LBrace")}

Sources ==
  NumberTexts \cup ExprTexts \cup AsgnTexts \cup ProgramTexts \cup LayoutTexts
  \cup GroupTexts \cup UnclosedTexts

(***************************************************************************)
(* globals.rs: globals                                                     *)
(***************************************************************************)
globals == "clock" :> Native(0, "clock")

(***************************************************************************)
(* The pipeline: resolve the parsed program, then Prog::exec               *)
(***************************************************************************)
Init ==
  /\ input \in Programs
  /\ prog = input
  /\ phase = "parsed"
  /\ pc = 1
  /\ scopes = <<new_global(globals)>>
  /\ out = <<>>
  /\ log = <<>>
  /\ rerr = ""
  /\ resolver = Resolver_new
  /\ passes = 0
  /\ src = <<>> /\ toks = <<>> /\ tree = <<>> /\ stage = "idle"
  /\ cursor = Cursor_new(<<>>)

\* Resolver::resolve ran to its end: the AST carries the depths
ResolveOk ==
  /\ phase = "parsed"
  /\ LET r == resolve(prog, Resolver_new) IN
       /\ r.rs.err = ""
       /\ prog' = r.s
       /\ resolver' = r.rs
  /\ phase' = "resolved"
  /\ passes' = 1
  /\ UNCHANGED <<input, pc, scopes, out, log, rerr>>
  /\ UNCHANGED front

\* Resolver::resolve printed an error and stopped; nothing is executed
ResolveFail ==
  /\ phase = "parsed"
  /\ LET r == resolve(prog, Resolver_new) IN
       /\ r.rs.err # ""
       /\ rerr' = r.rs.err
       /\ resolver' = r.rs
  /\ phase' = "rejected"
  /\ passes' = 1
  /\ UNCHANGED <<input, prog, pc, scopes, out, log>>
  /\ UNCHANGED front

\* Resolver::resolve is run once more over the AST it has annotated, by the Resolver
\* that made the first pass or by a new one
ResolveAgain ==
  /\ phase = "resolved" /\ pc = 1 /\ passes < MaxPasses
  /\ \E rs \in {resolver, Resolver_new} : \E r \in {resolve(prog, rs)} :
       /\ prog' = r.s
       /\ resolver' = r.rs
       /\ rerr' = r.rs.err
       /\ phase' = IF r.rs.err = "" THEN "resolved" ELSE "rejected"
  /\ passes' = passes + 1
  /\ UNCHANGED <<input, pc, scopes, out, log>>
  /\ UNCHANGED front

\* the evaluator's state at the start of a top-level statement, the clock reading t
Running(t) ==
  [scopes |-> scopes, out |-> out, log |-> log, cur |-> 0, fuel |-> MaxFuel, now |-> t]

\* one iteration of the loop of Prog::exec
Step(t) == exec(prog[pc], 1, Running(t))

\* the readings of the clock that matter to the statement: any, if it calls clock
Readings ==
  IF \E r \in {Step(0)} :
       \E i \in DOMAIN r.st.log : i > Len(log) /\ r.st.log[i].ev = "native"
  THEN 0..MaxClock ELSE {0}

ExecOk ==
  /\ phase = "resolved" /\ pc <= Len(prog)
  /\ \E t \in Readings : \E r \in {Step(t)} :
       /\ r.r = "ok"
       /\ scopes' = r.st.scopes /\ out' = r.st.out /\ log' = r.st.log
  /\ pc' = pc + 1
  /\ UNCHANGED <<input, prog, phase, rerr, resolver, passes>>
  /\ UNCHANGED front

\* a runtime error (or a failed expect) ends the run
ExecFail ==
  /\ phase = "resolved" /\ pc <= Len(prog)
  /\ \E t \in Readings : \E r \in {Step(t)} :
       /\ r.r \in {"err", "panic"}
       /\ phase' = r.r
       /\ scopes' = r.st.scopes /\ out' = r.st.out /\ log' = r.st.log
  /\ UNCHANGED <<input, prog, pc, rerr, resolver, passes>>
  /\ UNCHANGED front

\* the statement does not end within MaxFuel calls and loop iterations
ExecDiverge ==
  /\ phase = "resolved" /\ pc <= Len(prog)
  /\ \E t \in Readings : \E r \in {Step(t)} :
       /\ r.r = "limit"
       /\ scopes' = r.st.scopes /\ out' = r.st.out /\ log' = r.st.log
  /\ phase' = "limit"
  /\ UNCHANGED <<input, prog, pc, rerr, resolver, passes>>
  /\ UNCHANGED front

\* the loop of Prog::exec from statement i on, as one computation
RECURSIVE exec_from(_, _, _)
exec_from(p, i, st) ==
  IF i > Len(p) THEN [phase |-> "done", out |-> st.out, scopes |-> st.scopes]
  ELSE LET r == exec(p[i], 1, [st EXCEPT !.cur = 0, !.fuel = MaxFuel]) IN
       IF r.r = "ok" THEN exec_from(p, i + 1, r.st)
       ELSE [phase |-> r.r, out |-> r.st.out, scopes |-> r.st.scopes]

\* the whole run of a program that does not read the clock: resolve, then execute
Run(p) ==
  LET r == resolve(p, Resolver_new) IN
  IF r.rs.err # ""
  THEN [phase |-> "rejected", out |-> <<>>, scopes |-> <<new_global(globals)>>]
  ELSE exec_from(r.s, 1, [scopes |-> <<new_global(globals)>>, out |-> <<>>, log |-> <<>>,
                          cur |-> 0, fuel |-> MaxFuel, now |-> 0])

\* Prog::exec returns Ok(())
Finish ==
  /\ phase = "resolved" /\ pc > Len(prog)
  /\ phase' = "done"
  /\ UNCHANGED <<input, prog, pc, scopes, out, log, rerr, resolver, passes>>
  /\ UNCHANGED front

Next ==
  ResolveOk \/ ResolveFail \/ ResolveAgain \/ ExecOk \/ ExecFail \/ ExecDiverge \/ Finish

Spec == Init /\ [][Next]_vars

(***************************************************************************)
(* The front end: main.rs hands the text to the lexer and the lexer to the *)
(* parser.  src is the text, toks the tokens the lexer yields for it and   *)
(* tree the result of the parser on them.                                  *)
(***************************************************************************)
FrontInit ==
  /\ src \in Sources
  /\ toks = <<>> /\ tree = <<>> /\ stage = "source"
  /\ cursor = Cursor_new(<<>>)
  /\ input = <<>> /\ prog = <<>> /\ phase = "idle" /\ pc = 1
  /\ scopes = <<>> /\ out = <<>> /\ log = <<>> /\ rerr = ""
  /\ resolver = Resolver_new /\ passes = 0

\* Lexer::new(text) read to its end
Lex ==
  /\ stage = "source"
  /\ toks' = lex(src)
  /\ stage' = "lexed"
  /\ UNCHANGED <<src, tree, cursor>>
  /\ UNCHANGED back

\* RecursiveDescent::<Prog>::parse on the tokens
Parse ==
  /\ stage = "lexed"
  /\ tree' = Prog_parse(toks, <<>>)
  /\ stage' = "parsed"
  /\ UNCHANGED <<src, toks, cursor>>
  /\ UNCHANGED back

FrontNext == Lex \/ Parse

FrontSpec == FrontInit /\ [][FrontNext]_vars

(***************************************************************************)
(* parser/rec_desc.rs: parse_args and parse_params on their own, one turn  *)
(* of their while loop in a step, and the lexer one token in a step, on    *)
(* lists as long as the limit of 255 items and longer.  src is the text    *)
(* after the opening parenthesis, tree the list read so far with the       *)
(* tokens left.                                                            *)
(***************************************************************************)
\* the bound on the number of items a list has beyond the 255 the parser lets in
MaxOver == 2

\* the numbers of items of the lists: few, and around the limit
Counts == 0 .. 2 \cup 254 .. 255 + MaxOver

\* the text a,a,..,a) of n items and the closing parenthesis; item k is in
\* column 2(k - 1)
ListText(n) ==
  IF n = 0 THEN <<")">>
  ELSE [i \in 1 .. 2 * n |-> IF i = 2 * n THEN ")" ELSE IF i % 2 = 1 THEN "a" ELSE ","]

ListTexts == {ListText(n) : n \in Counts}

ListInit ==
  /\ src \in ListTexts
  /\ cursor = Cursor_new(src)
  /\ toks = <<>> /\ tree = <<>> /\ stage = "reading"
  /\ input = <<>> /\ prog = <<>> /\ phase = "idle" /\ pc = 1
  /\ scopes = <<>> /\ out = <<>> /\ log = <<>> /\ rerr = ""
  /\ resolver = Resolver_new /\ passes = 0

\* Iterator::next for Lexer, once: a turn of tokens
LexStep ==
  /\ stage = "reading"
  /\ \E t \in {Lexer_next(cursor)} :
       /\ cursor' = t.cu
       /\ toks' = IF t.tok = <<>> THEN toks ELSE Append(toks, t.tok[1])
       /\ stage' = IF t.tok = <<>> THEN "read" ELSE stage
  /\ UNCHANGED <<src, tree>>
  /\ UNCHANGED back

\* parse_args up to its while loop
ArgsFirst ==
  /\ stage = "read"
  /\ IF toks # <<>> /\ toks[1].kind # "RParen"
     THEN \E first \in {Expr_parse(toks)} :
            /\ tree' = IF first.ok THEN POk(<<first.v>>, first.ts) ELSE first
            /\ stage' = IF first.ok THEN "args" ELSE "args done"
     ELSE tree' = POk(<<>>, toks) /\ stage' = "args done"
  /\ UNCHANGED <<src, toks, cursor>>
  /\ UNCHANGED back

\* a turn of the while loop of parse_args
ArgsMore ==
  /\ stage = "args"
  /\ next_is(tree.ts, {"Comma"})
  /\ \E more \in {args_more(tree.v, tree.ts)} :
       /\ tree' = more
       /\ stage' = IF more.ok THEN stage ELSE "args done"
  /\ UNCHANGED <<src, toks, cursor>>
  /\ UNCHANGED back

\* the end of the while loop of parse_args: Ok(args)
ArgsEnd ==
  /\ stage = "args"
  /\ ~next_is(tree.ts, {"Comma"})
  /\ stage' = "args done"
  /\ UNCHANGED <<src, toks, tree, cursor>>
  /\ UNCHANGED back

\* parse_params up to its while loop
ParamsFirst ==
  /\ stage = "read"
  /\ IF toks # <<>> /\ toks[1].kind # "RParen"
     THEN \E name \in {consume_ident(toks)} :
            /\ tree' = IF name.ok THEN POk(<<name.v.name>>, name.ts) ELSE name
            /\ stage' = IF name.ok THEN "params" ELSE "params done"
     ELSE tree' = POk(<<>>, toks) /\ stage' = "params done"
  /\ UNCHANGED <<src, toks, cursor>>
  /\ UNCHANGED back

\* a turn of the while loop of parse_params
ParamsMore ==
  /\ stage = "params"
  /\ next_is(tree.ts, {"Comma"})
  /\ \E more \in {params_more(tree.v, tree.ts)} :
       /\ tree' = more
       /\ stage' = IF more.ok THEN stage ELSE "params done"
  /\ UNCHANGED <<src, toks, cursor>>
  /\ UNCHANGED back

\* the end of the while loop of parse_params: Ok(params)
ParamsEnd ==
  /\ stage = "params"
  /\ ~next_is(tree.ts, {"Comma"})
  /\ stage' = "params done"
  /\ UNCHANGED <<src, toks, tree, cursor>>
  /\ UNCHANGED back

ListNext ==
  LexStep \/ ArgsFirst \/ ArgsMore \/ ArgsEnd \/ ParamsFirst \/ ParamsMore \/ ParamsEnd

ListSpec == ListInit /\ [][ListNext]_vars

(***************************************************************************)
(* prog.rs: Scope::get and Scope::asgn on their own, from any scope of a   *)
(* tree of scopes and with any depth in the reference.  log keeps, after   *)
(* the notes of the operation, what was asked and what came back.          *)
(***************************************************************************)
\* the bound on the number of operations in a row
MaxOps == 1

ScopeNames == {"x", "y"}

ScopeMaps ==
  {EmptyMap, "x" :> Number(0), "y" :> Number(0), ("x" :> Number(0)) @@ ("y" :> Number(0))}

\* a local scope as new_local and def leave it
Local(values, outer) == [kind |-> "Local", values |-> values, outer |-> outer, global |-> 1]

\* the trees of at most three scopes under one global scope
Heaps ==
  {<<new_global(g)>> : g \in ScopeMaps}
  \cup {<<new_global(g), Local(a, 1)>> : g \in ScopeMaps, a \in ScopeMaps}
  \cup {<<new_global(g), Local(a, 1), Local(b, o)>> :
          g \in ScopeMaps, a \in ScopeMaps, b \in ScopeMaps, o \in {1, 2}}

\* the references: a name with any depth, one more than the deepest chain has
ScopeRefs == {[Variable(n) EXCEPT !.depth = d] : n \in ScopeNames, d \in -1 .. 3}

ScopeInit ==
  /\ scopes \in Heaps
  /\ phase = "scope" /\ pc = 1 /\ out = <<>> /\ log = <<>>
  /\ input = <<>> /\ prog = <<>> /\ rerr = "" /\ resolver = Resolver_new /\ passes = 0
  /\ src = <<>> /\ toks = <<>> /\ tree = <<>> /\ stage = "idle"
  /\ cursor = Cursor_new(<<>>)

\* what was asked of the scope sc and what came back
Asked(op, sc, var, new, r) ==
  [ev |-> "op", op |-> op, sc |-> sc, var |-> var, new |-> new, r |-> r.r, v |-> r.v]

\* Scope::get
ScopeGet ==
  /\ phase = "scope" /\ pc <= MaxOps
  /\ \E sc \in DOMAIN scopes : \E var \in ScopeRefs : \E r \in {get(sc, var, Running(0))} :
       /\ scopes' = r.st.scopes /\ out' = r.st.out
       /\ log' = Append(r.st.log, Asked("get", sc, var, NoVal, r))
       /\ phase' = IF r.r = "panic" THEN "panic" ELSE phase
  /\ pc' = pc + 1
  /\ UNCHANGED <<input, prog, rerr, resolver, passes>>
  /\ UNCHANGED front

\* Scope::asgn
ScopeAsgn ==
  /\ phase = "scope" /\ pc <= MaxOps
  /\ \E sc \in DOMAIN scopes : \E var \in ScopeRefs : \E new \in {Number(1), Nil} :
       \E r \in {asgn(sc, var, new, Running(0))} :
         /\ scopes' = r.st.scopes /\ out' = r.st.out
         /\ log' = Append(r.st.log, Asked("asgn", sc, var, new, r))
         /\ phase' = IF r.r = "panic" THEN "panic" ELSE phase
  /\ pc' = pc + 1
  /\ UNCHANGED <<input, prog, rerr, resolver, passes>>
  /\ UNCHANGED front

ScopeNext == ScopeGet \/ ScopeAsgn

ScopeSpec == ScopeInit /\ [][ScopeNext]_vars

(***************************************************************************)
(* Properties                                                              *)
(***************************************************************************)
Events == DOMAIN log

Failed == phase \in {"err", "panic", "limit", "rejected"}

\* the scopes reached from scope s by following outer links, s included
RECURSIVE Chain(_)
Chain(s) == IF scopes[s].kind = "Global" THEN {s} ELSE {s} \cup Chain(scopes[s].outer)

\* the declared parameter count (user-defined) or arity (native) of a function value
Arity(f) == IF f.kind = "Native" THEN f.arity ELSE Len(f.decl.params)

\* C1: every evaluation of Not(e) yields Boolean(!truthy(e)): true for Nil and
\* Boolean(false), false for every other operand value.
C1_NotNegatesTruthiness ==
  \A i \in Events : log[i].ev = "not" => log[i].v = Boolean(~truthy(log[i].arg))

\* C2: a call of a user-defined function that completes returns the value of the
\* return that ended its body, Nil when no return was executed, and never NoVal.
C2_CallResult ==
  \A i \in Events :
    (log[i].ev = "exit" /\ log[i].r = "ok") =>
      LET rets == {j \in 1..i : log[j].ev = "return" /\ log[j].call = log[i].call} IN
      /\ log[i].v # NoVal
      /\ rets = {} => log[i].v = Nil
      /\ rets # {} => log[i].v = log[CHOOSE j \in rets : \A k \in rets : k <= j].v

\* C3: NoVal is never bound to a variable in any scope, never passed as an argument
\* and never printed.
C3_NoValNeverObservable ==
  /\ \A s \in DOMAIN scopes : \A n \in DOMAIN scopes[s].values : scopes[s].values[n] # NoVal
  /\ \A i \in Events :
       /\ log[i].ev = "callexpr" => \A k \in DOMAIN log[i].args : log[i].args[k] # NoVal
       /\ log[i].ev = "print" => log[i].v # NoVal
  /\ \A j \in DOMAIN out : out[j] # "???"

\* C4: a function declaration captures the scope it is executed in; every call runs
\* in a fresh child of that closure scope; and every variable read or written during
\* the call addresses either a scope of the call itself (the call scope or a block
\* scope below it) or a scope on the chain closure -> ... -> global, whatever scope
\* the call is made from.
C4_ClosureScoping ==
  \A i \in Events :
    /\ log[i].ev = "funcdecl" => log[i].f.closure = log[i].sc
    /\ log[i].ev = "call" =>
         /\ scopes[log[i].call].kind = "Local"
         /\ scopes[log[i].call].outer = log[i].f.closure
         /\ \E j \in 1..i : log[j].ev = "funcdecl" /\ log[j].f = log[i].f
         /\ \A j \in 1..i : log[j].ev = "call" /\ log[j].call = log[i].call => j = i
    /\ (log[i].ev \in {"get", "asgn"} /\ log[i].call # 0) =>
         \/ log[i].call \in Chain(log[i].env)
         \/ log[i].env \in Chain(scopes[log[i].call].outer)

\* C4 witness: f, declared in a block with x = "d", was called from a block with its
\* own x = "c" and read and wrote the declaring block's x
C4_Witness ==
  /\ input = ClosureProgram(TRUE, CallFromBlock)
  /\ phase = "done"
  /\ out = <<"d!", "c", "d!", "g">>

\* the number of the first j calls that went to the counter c
CallsTo(calls, c, j) == Cardinality({i \in 1..j : i <= Len(calls) /\ calls[i] = c})

\* C5: with two counters made by two calls of makeCounter, the k-th call of each
\* counter returns k, whatever the interleaving, and each call changes only the
\* variable n captured by the counter called.
C5_CountersIndependent ==
  \A calls \in CallSeqs :
    input = CounterProgram(calls) =>
      /\ ~Failed
      /\ phase = "done" => Len(out) = Len(calls)
      /\ \A j \in DOMAIN out : out[j] = ToString(CallsTo(calls, calls[j], j))
      /\ pc > 3 =>
           LET s1 == scopes[1].values["c1"].closure
               s2 == scopes[1].values["c2"].closure
           IN /\ s1 # s2
              /\ scopes[s1].values["n"] = Number(CallsTo(calls, 1, pc - 4))
              /\ scopes[s2].values["n"] = Number(CallsTo(calls, 2, pc - 4))

\* C5 witness: the calls c1, c2, c1 printed 1, 1, 2
C5_Witness ==
  /\ phase = "done"
  /\ \E calls \in CallSeqs :
       /\ input = CounterProgram(calls)
       /\ calls[1] = 1 /\ calls[2] = 2 /\ calls[3] = 1
  /\ out[1] = "1" /\ out[2] = "1" /\ out[3] = "2"

\* C6: once a Return has executed in a call, no later statement of that call is
\* executed and no loop condition of it is evaluated again, and the call yields
\* exactly the returned value.
C6_ReturnEndsCall ==
  \A i \in Events :
    (log[i].ev = "return" /\ log[i].call # 0) =>
      \A j \in Events :
        j > i =>
          /\ ~(log[j].ev \in {"stmt", "cond"} /\ log[j].call = log[i].call)
          /\ (log[j].ev = "exit" /\ log[j].call = log[i].call /\ log[j].r = "ok")
               => log[j].v = log[i].v

\* C7: a call whose argument count differs from the callee's parameter count or arity
\* yields an arity error at once, with every scope as it was and nothing executed;
\* with equal counts a user-defined callee gets a fresh call scope in which the i-th
\* parameter is bound to the i-th argument, in order.
C7_ArityChecked ==
  \A i \in Events :
    log[i].ev = "callexpr" =>
      IF i = Len(log) THEN phase = "limit"
      ELSE IF Arity(log[i].f) # Len(log[i].args)
      THEN /\ log[i + 1].ev = "arity"
           /\ log[i + 1].heap = log[i].heap
           /\ i + 1 = Len(log)
           /\ scopes = log[i].heap
           /\ phase = "err"
      ELSE IF log[i].f.kind = "Native" THEN log[i + 1].ev = "native"
      ELSE /\ log[i + 1].ev = "call"
           /\ log[i + 1].call = Len(log[i].heap) + 1
           /\ \A k \in 1..Arity(log[i].f) :
                /\ log[i + 2 * k].ev = "def"
                /\ log[i + 2 * k].sc = log[i + 1].call
                /\ log[i + 2 * k].name = log[i].f.decl.params[k]
                /\ log[i + 2 * k].v = log[i].args[k]
                /\ log[i + 2 * k + 1].ev = "bind"
                /\ log[i + 2 * k + 1].i = k

\* C7 witness: a user-defined function of two parameters was called with three
\* arguments
C7_Witness ==
  /\ phase = "err"
  /\ log[Len(log)].ev = "arity"
  /\ log[Len(log)].f.kind = "UserDef"
  /\ Len(log[Len(log)].f.decl.params) = 2
  /\ Len(log[Len(log)].args) = 3
  /\ out = <<"Expected 2 arguments, got 3">>

\* C8: a VarDecl executed in a block binds the name in that block's scope only: the
\* enclosing scope's binding of the same name keeps its value, the block reads its
\* own binding and the code after the block reads the outer one again.
C8_DeclShadowsInBlock ==
  /\ \A v1 \in ShadowVals, v2 \in ShadowVals :
       /\ input = Shadow(v1, v2) =>
            /\ ~Failed
            /\ phase = "done" => out = <<Display(v2), Display(v1)>>
            /\ pc > 2 => /\ scopes[1].values["x"] = v1
                         /\ scopes[2].values = ("x" :> v2)
       /\ input = <<Block(Shadow(v1, v2))>> =>
            /\ ~Failed
            /\ phase = "done" => /\ out = <<Display(v2), Display(v1)>>
                                 /\ scopes[2].values = ("x" :> v1)
                                 /\ scopes[3].values = ("x" :> v2)
                                 /\ "x" \notin DOMAIN scopes[1].values
  /\ phase = "resolved" =>
       \A s \in DOMAIN scopes :
         LET r == exec(Decl("x", <<Str("new")>>), s, Running(0)) IN
         /\ r.r = "ok"
         /\ r.st.scopes = [scopes EXCEPT ![s].values = ("x" :> String("new")) @@ @]

\* C8 witness: let x = 1; { let x = 0; print x; } print x; printed 0 then 1
C8_Witness ==
  /\ input = Shadow(Number(1), Number(0))
  /\ phase = "done"
  /\ out = <<"0", "1">>

\* The depth a reference must carry, computed from the lexical structure alone: env
\* lists, innermost first, the names declared so far in each enclosing local scope.
RECURSIVE ScopesBetween(_, _, _)
ScopesBetween(name, env, i) ==
  IF i > Len(env) THEN -1
  ELSE IF name \in env[i] THEN i - 1
  ELSE ScopesBetween(name, env, i + 1)

Expected(var, env) ==
  LET d == ScopesBetween(var.name, env, 1) IN
  IF d >= 0 THEN [name |-> var.name, depth |-> d] ELSE var

Declared(name, env) == IF env = <<>> THEN env ELSE [env EXCEPT ![1] = @ \cup {name}]

RECURSIVE ExpectedExpr(_, _), ExpectedStmt(_, _), ExpectedStmts(_, _, _, _)
ExpectedExpr(e, env) ==
  CASE e.k = "Asgn" -> [e EXCEPT !.e = ExpectedExpr(e.e, env), !.var = Expected(e.var, env)]
    [] e.k = "Call" -> [e EXCEPT !.callee = ExpectedExpr(e.callee, env),
                                 !.args = [i \in DOMAIN e.args |-> ExpectedExpr(e.args[i], env)]]
    [] e.k \in BinOps -> [e EXCEPT !.lhs = ExpectedExpr(e.lhs, env),
                                   !.rhs = ExpectedExpr(e.rhs, env)]
    [] e.k \in {"Not", "Opp"} -> [e EXCEPT !.arg = ExpectedExpr(e.arg, env)]
    [] e.k = "Lit" -> e
    [] e.k = "Var" -> [e EXCEPT !.var = Expected(e.var, env)]

\* the statements from the i-th on, in order; a declaration is in force from its own
\* initializer on (a read of the name there is rejected, an assignment to it is not)
ExpectedStmts(ss, i, env, acc) ==
  IF i > Len(ss) THEN acc
  ELSE LET a == ExpectedStmt(ss[i], env) IN ExpectedStmts(ss, i + 1, a.env, Append(acc, a.s))

ExpectedStmt(s, env) ==
  CASE s.k = "Block" ->
         [s |-> [s EXCEPT !.stmts = ExpectedStmts(s.stmts, 1, <<{}>> \o env, <<>>)], env |-> env]
    [] s.k \in {"Expr", "Print"} -> [s |-> [s EXCEPT !.e = ExpectedExpr(s.e, env)], env |-> env]
    [] s.k = "Decl" ->
         LET env1 == Declared(s.name, env) IN
         [s |-> [s EXCEPT !.init = [i \in DOMAIN s.init |-> ExpectedExpr(s.init[i], env1)]],
          env |-> env1]
    [] s.k = "If" ->
         [s |-> [s EXCEPT !.cond = ExpectedExpr(s.cond, env),
                          !.then = ExpectedStmt(s.then, env).s,
                          !.else = [i \in DOMAIN s.else |-> ExpectedStmt(s.else[i], env).s]],
          env |-> env]
    [] s.k = "While" ->
         [s |-> [s EXCEPT !.cond = ExpectedExpr(s.cond, env),
                          !.body = ExpectedStmt(s.body, env).s],
          env |-> env]
    [] s.k = "Func" ->
         LET env1 == Declared(s.name, env) IN
         [s |-> [s EXCEPT !.body =
                   ExpectedStmt(s.body, <<{s.params[i] : i \in DOMAIN s.params}>> \o env1).s],
          env |-> env1]
    [] s.k = "Return" ->
         [s |-> [s EXCEPT !.ret = [i \in DOMAIN s.ret |-> ExpectedExpr(s.ret[i], env)]],
          env |-> env]

\* C9: after resolution every Var and Assign target whose name is declared, at that
\* point, in a local scope enclosing it carries the number of scopes between the
\* innermost scope and the nearest such scope, and every other reference keeps its
\* negative depth.
C9_DepthIsScopeDistance ==
  phase \notin {"parsed", "rejected"} => prog = ExpectedStmts(input, 1, <<>>, <<>>)

\* C9 witness: in { let x = 1; { x; } } the inner x has depth 1
C9_Witness ==
  /\ input = NestedRead
  /\ phase = "resolved"
  /\ prog[1].stmts[2].stmts[1].e.var.depth = 1

\* a Return that is not lexically inside a function declaration
RECURSIVE ReturnOutside(_)
ReturnOutside(s) ==
  CASE s.k = "Return" -> TRUE
    [] s.k = "Block" -> \E i \in DOMAIN s.stmts : ReturnOutside(s.stmts[i])
    [] s.k = "If" -> ReturnOutside(s.then) \/ (s.else # <<>> /\ ReturnOutside(s.else[1]))
    [] s.k = "While" -> ReturnOutside(s.body)
    [] OTHER -> FALSE

\* C10: the resolver stops with ReturnOutsideFunction only at a Return that is not
\* inside any function declaration, never accepts a program that has such a Return,
\* and reports nothing for the returns inside function bodies.
C10_ReturnOutsideFunction ==
  LET outside == \E i \in DOMAIN input : ReturnOutside(input[i]) IN
  /\ rerr = "ReturnOutsideFunction" => outside
  /\ outside => phase \in {"parsed", "rejected"}
  /\ (outside /\ rerr \notin {"DuplicateInScope", "SelfReferentialInitializer"}
        /\ phase # "parsed") => rerr = "ReturnOutsideFunction"

\* C10 witness: fn f() { return; } return;  is rejected for its second return
C10_Witness ==
  /\ input = <<Func("f", <<>>, Block(<<Return(<<>>)>>)), Return(<<>>)>>
  /\ phase = "rejected"
  /\ rerr = "ReturnOutsideFunction"

\* the expression reads the variable name (an assignment's target is not a read)
RECURSIVE Reads(_, _)
Reads(e, name) ==
  CASE e.k = "Var" -> e.var.name = name
    [] e.k = "Asgn" -> Reads(e.e, name)
    [] e.k = "Call" -> Reads(e.callee, name) \/ \E i \in DOMAIN e.args : Reads(e.args[i], name)
    [] e.k \in BinOps -> Reads(e.lhs, name) \/ Reads(e.rhs, name)
    [] e.k \in {"Not", "Opp"} -> Reads(e.arg, name)
    [] OTHER -> FALSE

\* the statement holds a let, in a local scope when local is true, whose initializer
\* reads the variable being declared
RECURSIVE SelfInit(_, _)
SelfInit(s, local) ==
  CASE s.k = "Decl" -> local /\ s.init # <<>> /\ Reads(s.init[1], s.name)
    [] s.k = "Block" -> \E i \in DOMAIN s.stmts : SelfInit(s.stmts[i], TRUE)
    [] s.k = "If" -> SelfInit(s.then, local) \/ (s.else # <<>> /\ SelfInit(s.else[1], local))
    [] s.k = "While" -> SelfInit(s.body, local)
    [] s.k = "Func" -> SelfInit(s.body, TRUE)
    [] OTHER -> FALSE

\* the statement declares the name: let name or fn name
Declares(s, name) == s.k \in {"Decl", "Func"} /\ s.name = name

\* a statement list in which a let follows a declaration of the same name
DupIn(stmts) ==
  \E i \in DOMAIN stmts, j \in DOMAIN stmts :
    i < j /\ stmts[j].k = "Decl" /\ Declares(stmts[i], stmts[j].name)

\* the statement holds a block with such a statement list
RECURSIVE HasDup(_)
HasDup(s) ==
  CASE s.k = "Block" -> DupIn(s.stmts) \/ \E i \in DOMAIN s.stmts : HasDup(s.stmts[i])
    [] s.k = "If" -> HasDup(s.then) \/ (s.else # <<>> /\ HasDup(s.else[1]))
    [] s.k = "While" -> HasDup(s.body)
    [] s.k = "Func" -> HasDup(s.body)
    [] OTHER -> FALSE

\* the evaluator has not been given anything to run
Untouched == pc = 1 /\ out = <<>> /\ log = <<>> /\ scopes = <<new_global(globals)>>

C14_ShortCircuit ==
  \A op \in {"And", "Or"}, l \in SampleVals :
    LET needed == IF op = "And" THEN truthy(l) ELSE ~truthy(l) IN
    /\ input = LogicProgram(op, l, Assign("x", Num(1))) =>
         /\ ~Failed
         /\ pc > 3 => scopes[1].values["x"] = (IF needed THEN Number(1) ELSE Number(0))
         /\ phase = "done" => out = (IF needed THEN <<"1", "1">> ELSE <<Display(l), "0">>)
    /\ input = LogicProgram(op, l, V("u")) =>
         /\ Failed => (needed /\ phase = "err" /\ pc = 3 /\ out = <<"Undefined variable 'u'">>)
         /\ pc > 3 => ~needed
         /\ phase = "done" => out = <<Display(l), "0">>
    /\ input = LogicProgram(op, l, CallOf("f", <<>>)) =>
         /\ ~Failed
         /\ phase = "done" => out = (IF needed THEN <<"f", "r", "0">> ELSE <<Display(l), "0">>)

\* C14 witness: print nil and (x = 1); printed nil and left x at 0
C14_Witness ==
  /\ input = LogicProgram("And", Nil, Assign("x", Num(1)))
  /\ phase = "done"
  /\ out = <<"nil", "0">>
  /\ scopes[1].values["x"] = Number(0)

\* C15: two user-defined function values are equal exactly when they come from the
\* same declaration statement and have the same closure scope: values of two distinct
\* declarations are unequal even when the declarations read the same and ran in the
\* same scope, values of one declaration run in two scopes are unequal, and a
\* user-defined function never equals a native one.
C15_FunctionIdentity ==
  phase = "done" =>
    /\ input = TwinDecls => out = <<"false">>
    /\ input = OtherDecls => out = <<"false">>
    /\ input = OneDecl => out = <<"true", "false">>
    /\ input = TwoClosures => out = <<"false", "true">>
    /\ input = WithNative => out = <<"false", "true">>

\* the scopes a scope refers to: its enclosing scope and the closure of every
\* user-defined function bound in its map
Refs(s) ==
  (IF scopes[s].kind = "Local" THEN {scopes[s].outer} ELSE {})
  \cup {scopes[s].values[n].closure :
          n \in {m \in DOMAIN scopes[s].values :
                   scopes[s].values[m].t = "Func" /\ scopes[s].values[m].kind = "UserDef"}}

\* the scopes reached from a set of scopes by following references
RECURSIVE ReachedFrom(_)
ReachedFrom(set) ==
  LET more == set \cup UNION {Refs(s) : s \in set} IN
  IF more = set THEN set ELSE ReachedFrom(more)

\* C16: the reference graph of scopes (scope -> enclosing scope, scope -> closure of
\* each function it binds) is acyclic: no scope is reached from itself.
C16_ScopeGraphAcyclic ==
  \A s \in DOMAIN scopes : s \notin ReachedFrom(Refs(s))

\* C17: resolving an AST the resolver has already resolved and accepted changes no
\* depth and raises no error, with the same Resolver as with a new one: after every
\* pass the AST is the one the first pass produced, and the Resolver is back in its
\* initial state.
C17_ResolveIdempotent ==
  passes >= 1 =>
    LET first == resolve(input, Resolver_new) IN
    IF first.rs.err # "" THEN phase = "rejected" /\ passes = 1
    ELSE /\ phase # "rejected"
         /\ prog = first.s
         /\ resolver = Resolver_new

\* C17 witness: { let x = 1; { x; } } was resolved twice and the inner x has depth 1
C17_Witness ==
  /\ input = NestedRead
  /\ passes = 2
  /\ phase = "resolved"
  /\ prog[1].stmts[2].stmts[1].e.var.depth = 1

\* { I; while (C) { B; U; } } with B kept as one statement and C true when absent
ForReference(init, cond, incr, body) ==
  Block(init \o <<While(IF cond = <<>> THEN Lit(Boolean(TRUE)) ELSE cond[1],
                        Block(<<body>> \o [i \in DOMAIN incr |-> ExprStmt(incr[i])]))>>)

\* what a run shows of a value: a function value only as such
Shown(v) == IF v.t = "Func" THEN "<fn>" ELSE v

\* what is observable of a finished run: how it ended, the output, the global variables
Observed(ph, o, sc) ==
  [phase |-> ph, out |-> o,
   globals |-> [n \in DOMAIN sc[1].values |-> Shown(sc[1].values[n])]]

\* C13: a program with for (I; C; U) B ends the same way, with the same output and
\* the same global variables, as the program with { I; while (C) { B; U; } } in its
\* place, B kept as one statement and C true when absent.
C13_ForDesugaring ==
  phase \in {"done", "err", "panic", "limit", "rejected"} =>
    \A wrapped \in BOOLEAN, init \in ForInits, cond \in ForConds, incr \in ForIncrs,
       body \in ForBodies :
      input = ForProgram(wrapped, init, cond, incr, body) =>
        \E ref \in {Run(Around(wrapped, ForReference(init, cond, incr, body)))} :
          Observed(phase, out, scopes) = Observed(ref.phase, ref.out, ref.scopes)

(***************************************************************************)
(* The lexer's numbers                                                     *)
(***************************************************************************)
\* the index in the text of the first character of token i
Start(ts, i) == ts[i].loc.col + 1

\* the index where the token after token i starts, one past the text for the last
NextStart(text, ts, i) == IF i < Len(ts) THEN Start(ts, i + 1) ELSE Len(text) + 1

\* the characters of token i: from its start up to the next token, spaces left out
Written(text, ts, i) ==
  SelectSeq(SubSeq(text, Start(ts, i), NextStart(text, ts, i) - 1), LAMBDA c : c # " ")

\* the tokens lie in the text in their order, each starting on a character that is not
\* a space, and nothing but spaces lies before the first token or between the last
\* character of a token and the next token
Tiled(text, ts) ==
  /\ \A i \in DOMAIN ts :
       /\ Start(ts, i) < NextStart(text, ts, i)
       /\ text[Start(ts, i)] # " "
       /\ \A p, q \in Start(ts, i) .. NextStart(text, ts, i) - 1 :
            p < q /\ text[p] = " " => text[q] = " "
  /\ \A p \in 1 .. (IF ts = <<>> THEN Len(text) ELSE Start(ts, 1) - 1) : text[p] = " "

\* digits, or digits, one point and digits
IsNumeral(l) ==
  LET dots == {i \in DOMAIN l : l[i] = "."} IN
  /\ l # <<>>
  /\ \A i \in DOMAIN l \ dots : l[i] \in Digits
  /\ dots = {} \/ (Cardinality(dots) = 1 /\ 1 \notin dots /\ Len(l) \notin dots)

\* the number token with the characters l took all it had to take: no digit follows
\* it, and if it has no point then no point with a digit behind it follows it
Munched(text, ts, i, l) ==
  LET after == Start(ts, i) + Len(l) IN
  after <= Len(text) =>
    /\ text[after] \notin Digits
    /\ (\A j \in DOMAIN l : l[j] # ".") =>
         ~(text[after] = "." /\ after < Len(text) /\ text[after + 1] \in Digits)

At(col) == [row |-> 0, col |-> col]

\* C20: in a text of digits, points and spaces every token is a Dot that is one point
\* or a Number whose characters are digits, or digits, a point and digits, and whose
\* value is the one they write; a Number takes every digit that follows it, and a point
\* with the digits behind it exactly when a digit follows the point.  123.456 is one
\* Number, 123. a Number and a Dot, .456 a Dot and a Number, 1.2.3 the Number 1.2, a Dot
\* and the Number 3.
C20_NumberLexing ==
  stage # "source" /\ src \in NumberTexts =>
    /\ Tiled(src, toks)
    /\ \A i \in DOMAIN toks :
         \E l \in {Written(src, toks, i)} :
           /\ toks[i].loc.row = 0
           /\ \/ toks[i].kind = "Dot" /\ l = <<".">>
              \/ /\ toks[i].kind = "Number"
                 /\ IsNumeral(l)
                 /\ toks[i].x = parse_f64(l)
                 /\ Munched(src, toks, i, l)
    /\ src = <<"1", "2", "3", ".", "4", "5", "6">> =>
         toks = <<TokenX(Fraction(123456, 3), At(0))>>
    /\ src = <<"1", "2", "3", ".">> => toks = <<TokenX(Fraction(123, 0), At(0)), Token("Dot", At(3))>>
    /\ src = <<".", "4", "5", "6">> => toks = <<Token("Dot", At(0)), TokenX(Fraction(456, 0), At(1))>>
    /\ src = <<"1", ".", "2", ".", "3">> =>
         toks = <<TokenX(Fraction(12, 1), At(0)), Token("Dot", At(3)), TokenX(Fraction(3, 0), At(4))>>

\* C20: the text 1.0.1 was lexed, the point after 1.0 left to a Dot of its own
C20_Witness ==
  /\ stage = "lexed"
  /\ src = <<"1", ".", "0", ".", "1">>
  /\ toks = <<TokenX(Fraction(1, 0), At(0)), Token("Dot", At(3)), TokenX(Fraction(1, 0), At(4))>>

(***************************************************************************)
(* The parser's expressions                                                *)
(***************************************************************************)
\* the statement the text  before e ;  writes
Stated(before, e) ==
  IF before = <<>> THEN ExprStmt(e)
  ELSE IF before[1] = <<"b">> THEN ExprStmt(Asgn(Variable("b"), e))
  ELSE PrintStmt(e)

\* C18: a text with anything but a bare name to the left of = fails to parse with
\* InvalidAsgn at the first token of that left-hand side, and with the bare name a the
\* parser yields the assignment to a.
C18_InvalidAssignmentTarget ==
  stage = "parsed" =>
    \A before \in Before :
      /\ \A target \in OtherTargets :
           src = AsgnText(before, target) =>
             ~tree.ok /\ tree.err = InvalidAsgn(At(TargetCol(before)))
      /\ src = AsgnText(before, BareTarget) =>
           /\ tree.ok
           /\ tree.v = <<Stated(before, Asgn(Variable("a"), Lit(Number(3))))>>

\* C19: the parser yields, for the text of an expression statement, one expression
\* statement, and the layered grammar derives the text from its expression: with the
\* parentheses the levels ask for, or with every operand in parentheses.
C19_LayeredGrammar ==
  stage = "parsed" /\ src \in ExprTexts =>
    /\ tree.ok
    /\ Len(tree.v) = 1 /\ tree.v[1].k = "Expr"
    /\ \E all \in BOOLEAN : ExprText(tree.v[1].e, all) = src

(***************************************************************************)
(* The lexer's locations                                                   *)
(***************************************************************************)
\* the cursor after it consumed k characters of the text
RECURSIVE Advance(_, _)
Advance(text, k) == IF k = 0 THEN Cursor_new(text) ELSE cursor_next(Advance(text, k - 1))

\* the number of newlines among the first k characters, and the index of the last one
Newlines(text, k) == Cardinality({i \in 1 .. k : text[i] = "\n"})

LastNewline(text, k) ==
  LET at == {i \in 1 .. k : text[i] = "\n"} IN
  IF at = {} THEN 0 ELSE CHOOSE i \in at : \A j \in at : j <= i

\* the location of the character of index p
LocationOf(text, p) ==
  [row |-> Newlines(text, p - 1), col |-> p - 1 - LastNewline(text, p - 1)]

\* the tokens of the text as Lexer::next yields them, each with the index of the
\* character the cursor stood before when next_raw took the location
RECURSIVE located(_, _)
located(cu, acc) ==
  LET t == next_raw(cu) IN
  IF t.tok = <<>> THEN acc
  ELSE located(t.cu,
               IF t.tok[1].kind = "Comment" THEN acc
               ELSE Append(acc, [tok |-> t.tok[1],
                                 first |-> eat_while(cu, Whitespace).col + 1]))

\* the characters a token of each kind may begin with
Begins(kind) ==
  CASE kind = "Ident" -> Alphabetic
    [] kind = "Slash" -> {"/"}
    [] kind \in {"String", "Unterminated"} -> {"\""}

\* C21: every token carries the location of its first character: the number of
\* newlines before it and the number of characters between the last of them (or the
\* start of the text) and it, whatever spaces, tabs, returns, newlines, comments and
\* strings over several lines lie before it; and bol <= col in every cursor.
C21_TokenLocations ==
  stage # "source" /\ src \in LayoutTexts =>
    /\ \E ts \in {located(Cursor_new(src), <<>>)} :
         /\ toks = [i \in DOMAIN ts |-> ts[i].tok]
         /\ \A i \in DOMAIN ts :
              /\ src[ts[i].first] \in Begins(ts[i].tok.kind)
              /\ ts[i].tok.loc = LocationOf(src, ts[i].first)
              /\ i > 1 => ts[i - 1].first < ts[i].first
    /\ \A k \in 0 .. Len(src) :
         \E cu \in {Advance(src, k)} :
           /\ cu.bol <= cu.col
           /\ Loc(cu) = LocationOf(src, k + 1)
    /\ src = WhitespaceTest =>
         toks = <<TokenS("Ident", "space", [row |-> 0, col |-> 0]),
                  TokenS("Ident", "tabs", [row |-> 0, col |-> 9]),
                  TokenS("Ident", "newline", [row |-> 0, col |-> 17]),
                  TokenS("Ident", "end", [row |-> 3, col |-> 0])>>

\* C21: a text was lexed whose second line holds a name behind the end of a string
\* that began on the first line
C21_Witness ==
  /\ stage = "lexed"
  /\ src = <<"\"", "\n", "\"", "a">>
  /\ toks = <<TokenS("String", "\n", [row |-> 0, col |-> 0]),
              TokenS("Ident", "a", [row |-> 1, col |-> 1])>>

(***************************************************************************)
(* Scope::get and Scope::asgn                                              *)
(***************************************************************************)
\* the scope d enclosing links above sc, 0 if the chain is shorter
RECURSIVE Above(_, _, _)
Above(heap, sc, d) ==
  IF d = 0 THEN sc
  ELSE IF heap[sc].kind = "Global" THEN 0
  ELSE Above(heap, heap[sc].outer, d - 1)

\* the global scope at the end of the chain of sc
Root(heap, sc) ==
  CHOOSE g \in DOMAIN heap :
    heap[g].kind = "Global" /\ \E d \in 0 .. Len(heap) : Above(heap, sc, d) = g

\* the one scope a reference of this depth addresses from sc
Addressed(heap, sc, depth) == IF depth < 0 THEN Root(heap, sc) ELSE Above(heap, sc, depth)

\* C22: get and asgn look at the one scope the depth addresses (the global scope for a
\* negative depth, the scope depth links above otherwise) and at no other: with the name
\* in that scope get returns its value and changes nothing, asgn replaces that one
\* value and changes nothing else; without it both fail with the message
\* Undefined variable and no scope changes.
C22_ScopeAddressing ==
  [][phase = "scope" /\ log' # log =>
       \E e \in {log'[Len(log')]} : \E t \in {Addressed(scopes, e.sc, e.var.depth)} :
         t # 0 =>
           IF e.var.name \in DOMAIN scopes[t].values
           THEN /\ e.r = "ok"
                /\ out' = out
                /\ IF e.op = "get"
                   THEN e.v = scopes[t].values[e.var.name] /\ scopes' = scopes
                   ELSE scopes' = [scopes EXCEPT ![t].values[e.var.name] = e.new]
           ELSE /\ e.r = "err"
                /\ scopes' = scopes
                /\ out' = Append(out, "Undefined variable '" \o e.var.name \o "'")
  ]_vars

\* C22: an assignment with depth 0 failed in a local scope that lacks the name while
\* the scope around it has it
C22_Witness ==
  /\ phase = "scope"
  /\ \E i \in DOMAIN log :
       /\ log[i].ev = "op" /\ log[i].op = "asgn" /\ log[i].r = "err"
       /\ log[i].var.depth = 0
       /\ scopes[log[i].sc].kind = "Local"
       /\ log[i].var.name \notin DOMAIN scopes[log[i].sc].values
       /\ log[i].var.name \in DOMAIN scopes[scopes[log[i].sc].outer].values

(***************************************************************************)
(* Blocks                                                                  *)
(***************************************************************************)
\* the scopes an event of the log names
Named(e) ==
  {e[f] : f \in DOMAIN e \cap {"sc", "env", "inner", "outer"}}
  \cup (IF e.ev \in {"call", "bind", "exit"} THEN {e.call} ELSE {})
  \cup (IF e.ev = "funcdecl" THEN {e.f.closure} ELSE {})

\* the execution of a block that made the scope sc, among the events before event j
BlockOf(sc, j) ==
  {i \in 1 .. j - 1 : log[i].ev = "block" /\ log[i].inner = sc}

\* C23: every execution of a Block makes a scope of its own: a child of the scope the
\* block is executed in, empty, and named by no event before; so a binding made in one
\* execution is not there when the next begins, and functions declared in different
\* executions of a block capture different scopes.
C23_BlockScopeFresh ==
  \A i \in DOMAIN log :
    /\ log[i].ev = "stmt" /\ log[i].k = "Block" =>
         /\ i < Len(log)
         /\ log[i + 1].ev = "block" /\ log[i + 1].outer = log[i].sc
    /\ log[i].ev = "block" =>
         /\ log[i].inner \in DOMAIN scopes
         /\ scopes[log[i].inner].kind = "Local"
         /\ scopes[log[i].inner].outer = log[i].outer
         /\ log[i].values = EmptyMap
         /\ \A j \in 1 .. i - 1 : log[i].inner \notin Named(log[j])
    /\ log[i].ev = "funcdecl" =>
         \A j \in 1 .. i - 1 :
           /\ log[j].ev = "funcdecl"
           /\ BlockOf(log[i].sc, i) # {} /\ BlockOf(log[j].sc, j) # {}
           /\ BlockOf(log[i].sc, i) # BlockOf(log[j].sc, j)
           => log[i].f.closure # log[j].f.closure

\* C23: a block that declares a function was executed twice, and a binding was made
\* in the scope of the first execution before the second began
C23_Witness ==
  \E i \in DOMAIN log :
    /\ log[i].ev = "block"
    /\ \E k \in i + 1 .. Len(log) :
         /\ log[k].ev = "block"
         /\ \E j \in i + 1 .. k - 1 : log[j].ev = "def" /\ log[j].sc = log[i].inner
         /\ \E a \in i + 1 .. Len(log) :
              /\ log[a].ev = "funcdecl" /\ log[a].sc = log[i].inner
              /\ \E b \in k + 1 .. Len(log) :
                   /\ log[b].ev = "funcdecl" /\ log[b].sc = log[k].inner
                   /\ log[a].f.decl = log[b].f.decl

(***************************************************************************)
(* Parentheses, limits and delimiters                                      *)
(***************************************************************************)
\* C24: an expression statement that is one expression in parentheses parses to that
\* expression, whatever expression it is, an assignment included: ( a = 1 ) is the
\* assignment of 1 to a.
C24_GroupAcceptsExpr ==
  stage = "parsed" =>
    \A e \in Shallow : src = GroupText(e) => tree.ok /\ tree.v = <<ExprStmt(e)>>

\* the list parse_args or parse_params gave back has the n items of the text, and
\* the closing parenthesis is the token left
Listed(n, item) ==
  /\ tree.ok
  /\ Len(tree.v) = n
  /\ \A i \in 1 .. n : tree.v[i] = item
  /\ Len(tree.ts) = 1 /\ tree.ts[1].kind = "RParen"

\* C25: a list of at most 255 arguments or parameters parses, with all its items;
\* a list of 256 items or more fails with TooManyArgs or TooManyParams at the
\* location of item 256, which is column 510 of the text.
C25_ListLimits ==
  \A n \in Counts :
    src = ListText(n) =>
      /\ stage = "args done" =>
           IF n <= 255 THEN Listed(n, Var(Variable("a")))
           ELSE tree = PErr(TooManyArgs(At(2 * 255)))
      /\ stage = "params done" =>
           IF n <= 255 THEN Listed(n, "a")
           ELSE tree = PErr(TooManyParams(At(2 * 255)))

\* C25: parse_args stopped at argument 256 of a list of 256 arguments
C25_Witness ==
  /\ stage = "args done" /\ src = ListText(256)
  /\ ~tree.ok /\ tree.err.e = "TooManyArgs" /\ tree.err.loc = At(510)

\* C26: where the closing delimiter of an opened parenthesis or brace is required
\* and the text ends or has another token, the parser fails with Unmatched and the
\* opening token.
C26_UnmatchedDelimiter ==
  stage = "parsed" =>
    \A o \in Opened : \A i \in Instead(o.kind) :
      src = o.text \o i =>
        ~tree.ok /\ tree.err.e = "Unmatched" /\ tree.err.open = Token(o.kind, At(o.col))

\* C27: in the run of a program the resolver accepted no walk of depth outer links
\* runs past the global scope, and no read and no assignment with a depth of 0 or
\* more fails to find its name.
C27_ResolvedReferences ==
  /\ phase # "panic"
  /\ \A i \in DOMAIN log : log[i].ev = "undefined" => log[i].depth < 0

\* what a program of CapturePrograms prints when show reads and writes the global a
\* in both of its calls
Captured(use) ==
  IF use = <<ExprStmt(Assign("a", Bin("Add", V("a"), Str("!")))), PrintStmt(V("a"))>>
  THEN <<"g!", "g!!", "b", "g!!">>
  ELSE <<"g", "g", "b", "g">>

\* C28: a reference to a in the body of show, resolved as global when show was
\* declared, reads and writes the global a in every call, also in the call made after
\* the block around show has declared its own a; the block's own reference reads the
\* block's a.
C28_StaticBinding ==
  \A use \in Uses : \A site \in ShowCalls :
    input = Capture(use, site) =>
      /\ \A i \in DOMAIN log :
           log[i].ev \in {"get", "asgn", "undefined"} /\ log[i].name = "a" =>
             /\ log[i].ev # "undefined"
             /\ log[i].call # 0 => log[i].env = 1
      /\ phase = "resolved" /\ pc > Len(prog) => out = Captured(use)

\* C28: show was called after the block around it had declared its own a, and read
\* the global a
C28_Witness ==
  /\ input \in CapturePrograms
  /\ pc > Len(prog)
  /\ \E i \in DOMAIN log :
       /\ log[i].ev = "def" /\ log[i].name = "a" /\ log[i].sc # 1
       /\ \E j \in i + 1 .. Len(log) :
            /\ log[j].ev = "get" /\ log[j].name = "a" /\ log[j].call # 0
            /\ log[j].env = 1

\* C29: from every local scope the outer links lead to a global scope, which is the
\* scope's global field; there is one global scope in a run, and every read and
\* assignment with a negative depth, from whatever scope, addresses it.
C29_OneGlobal ==
  /\ \A s \in DOMAIN scopes :
       /\ scopes[s].kind = "Global" => s = 1
       /\ scopes[s].kind = "Local" =>
            \E d \in 1 .. Len(scopes) :
              /\ Above(scopes, s, d) # 0
              /\ scopes[Above(scopes, s, d)].kind = "Global"
              /\ scopes[s].global = Above(scopes, s, d)
  /\ \A i \in DOMAIN log :
       log[i].ev \in {"get", "asgn", "undefined"} /\ log[i].depth < 0 =>
         log[i].env = 1 /\ scopes[log[i].env].kind = "Global"

\* C29: a reference with a negative depth was read in a call made from a block, in the
\* body's scope, two local scopes and more away from the global scope
C29_Witness ==
  \E i \in DOMAIN log :
    /\ log[i].ev = "get" /\ log[i].depth < 0 /\ log[i].call # 0
    /\ scopes[log[i].sc].kind = "Local"
    /\ scopes[scopes[log[i].sc].outer].kind = "Local"
    /\ scopes[scopes[scopes[log[i].sc].outer].outer].kind = "Local"
    /\ scopes[log[i].sc].global = 1

\* the last of the arguments that go to a parameter named a
LastGiven(params) ==
  LET i == CHOOSE k \in DOMAIN params :
             params[k] = "a" /\ \A l \in DOMAIN params : params[l] = "a" => l <= k
  IN "" \o Numbered[i].v.s

\* C30: a fn whose name the scope has already and a parameter list that repeats a
\* name pass the resolver; in the run the second f is the one called, and the
\* parameter has the last of the arguments given to it.
C30_NoDuplicateCheck ==
  \A first \in Firsts : \A params \in Repeats :
    input \in {Twice(first, params), <<Block(Twice(first, params))>>} =>
      /\ phase \notin {"rejected", "err", "panic"}
      /\ rerr = ""
      /\ phase = "resolved" /\ pc > Len(prog) => out = <<"2", LastGiven(params)>>

\* C30: a block with two declarations of f and a call of g(a, a) has run to its end
C30_Witness ==
  /\ input = <<Block(Twice(Func("f", <<>>, Block(<<Return(<<Str("1")>>)>>)), <<"a", "a">>))>>
  /\ phase = "resolved" /\ pc > Len(prog)
  /\ out = <<"2", "2">>
  /\ \E i \in DOMAIN log : \E j \in i + 1 .. Len(log) :
       /\ log[i].ev = "bind" /\ log[j].ev = "bind"
       /\ log[i].call = log[j].call /\ log[i].name = log[j].name

====
